---- MODULE Spec2Model ----
(***************************************************************************)
(* A model of the pg-mcp query core:                                       *)
(*   - SQLValidator           (src/pg-mcp/src/services/sql_validator.py)   *)
(*   - with_retry/RetryConfig (src/pg-mcp/src/resilience/retry.py)         *)
(*   - QueryOrchestrator      (src/pg-mcp/src/services/orchestrator.py)    *)
(*                                                                         *)
(* Six specifications share the module:                                    *)
(*   SpecValidator  builds a parse result and applies validate_or_raise;   *)
(*   SpecRetry      runs one call of a with_retry wrapper;                 *)
(*   Spec           runs execute_query requests one after the other;       *)
(*   SpecBreaker    lets concurrent callers use one circuit breaker;       *)
(*   SpecCache      lets concurrent requests look up and load schemas;     *)
(*   SpecFailingExecutor  runs execute_query requests whose generated SQL  *)
(*                  is always accepted and whose execution always fails.   *)
(***************************************************************************)
EXTENDS Naturals, Integers, Sequences, FiniteSets, TLC

VARIABLES
    vsql,       \* validator harness: the SQL under validation (shape and parse tree)
    vself,      \* validator harness: the SQLValidator object
    vres,       \* validator harness: outcome of validate_or_raise
    vpc,        \* validator harness: "input" while the SQL is drawn, then "validated"
    rcfg,       \* with_retry: the RetryConfig (config)
    rpc,        \* with_retry: where the wrapper is: "call", "sleep", "done", or "ValueError"
    attempt,    \* with_retry: the loop variable attempt
    calls,      \* with_retry: invocations of the wrapped operation so far
    sleeps,     \* with_retry: the delays slept so far
    last_exception, \* with_retry: the local last_exception
    rout,       \* with_retry: how the wrapper ended
    rhist,      \* with_retry: how each invocation of the operation ended
    orch,       \* orchestrator: what __init__ was given (validator, pools, configuration)
    circuit_breaker, \* orchestrator: self.circuit_breaker
    opc,        \* orchestrator: where execute_query is suspended
    request,    \* orchestrator: the QueryRequest being served
    gen,        \* orchestrator: attempt, previous_sql, error_feedback of the generation loop
    generated_sql, \* orchestrator: generated_sql of execute_query
    db_attempt, \* orchestrator: attempt of the retry wrapper around the execution
    response,   \* orchestrator: the QueryResponse returned
    validated,  \* the SQL validate_or_raise returned for during this request
    executed,   \* the SQL executor.execute was invoked with during this request
    database_name, \* orchestrator: database_name of execute_query
    trace,      \* the calls execute_query made to its collaborators during this request
    llm_streak, \* requests in a row ended by an LLMError of the generator (up to the threshold)
    last_generated, \* what the last sql_generator.generate call of this request returned
    results,    \* orchestrator: results and total_count of execute_query
    measured,   \* how result_validator.validate ended in this request
    produced,   \* the rows the query of the last executor.execute call of this request produced
    metrics,    \* what this request reported to metrics: query_duration, query_requests_total
    probing,    \* an allow_request of this request moved the breaker from OPEN to HALF_OPEN
    caught,     \* the exception the try block of execute_query ended with in this request
    callers,    \* breaker harness: per caller, "idle" or "in_call" (admitted, result pending)
    bstreak,    \* breaker harness: record_failure calls since the last record_success
    bprobes,    \* breaker harness: admissions since the breaker last opened
    blast,      \* breaker harness: the last operation on the breaker and the breaker before it
    schema_cache, \* schema cache: entries, introspections in flight and started, per name
    tasks       \* schema cache harness: per request, where it is and the schema it got

vvars == <<vsql, vself, vres, vpc>>
rvars == <<rcfg, rpc, attempt, calls, sleeps, last_exception, rout, rhist>>
ovars == <<orch, circuit_breaker, opc, request, gen, generated_sql, db_attempt,
           response, validated, executed, database_name, trace, llm_streak,
           last_generated, results, measured, produced, metrics, probing,
           caught>>
bvars == <<callers, bstreak, bprobes, blast>>
cvars == <<schema_cache, tasks>>
vars == <<vvars, rvars, ovars, bvars, cvars>>


(***************************************************************************)
(* Bounds of the model.                                                    *)
(***************************************************************************)
MaxNodes == 3
MaxItems == 2
MaxJoinCfg == 2
MaxAttempts == 3
MaxDelay == 3
MaxRetries == 3
MaxCallers == 2
MaxThreshold == 2
MaxRows == 2
MaxTasks == 3
MaxLoads == 2

(***************************************************************************)
(* Strings.  str.lower() and str.upper() are modelled on the alphabet the  *)
(* model draws identifiers from.                                           *)
(***************************************************************************)
Lower(s) ==
    CASE s = "USERS" -> "users"
      [] s = "Users" -> "users"
      [] s = "U" -> "u"
      [] s = "PASSWORD" -> "password"
      [] s = "Password" -> "password"
      [] s = "PG_SLEEP" -> "pg_sleep"
      [] s = "Ord*" -> "ord*"
      [] OTHER -> s

Upper(s) ==
    CASE s = "explain" -> "EXPLAIN"
      [] s = "Explain" -> "EXPLAIN"
      [] s = "vacuum" -> "VACUUM"
      [] OTHER -> s

\* fnmatch.fnmatch(name, pattern) on the patterns the model uses: a pattern
\* without wildcard matches itself, "ord*" matches every name starting "ord".
fnmatch(name, pattern) ==
    \/ pattern = name
    \/ pattern = "ord*" /\ name \in {"ord", "orders", "ord*"}

(***************************************************************************)
(* Parse trees.  A tree is a sequence of nodes; node 1 is the statement,   *)
(* every other node names its parent, which precedes it.  The expressions  *)
(* of a SELECT that the checks read (table, column and function            *)
(* references) are the items of its node.  The With node sqlglot puts      *)
(* between a query and its CTEs is left out below the top level: no check  *)
(* reads it.                                                               *)
(***************************************************************************)
ALLOWED_STATEMENT_TYPES == {"Select", "Union", "Intersect", "Except"}

ALLOWED_TOP_LEVEL == {"Select", "Union", "Intersect", "Except", "With", "Subquery"}

FORBIDDEN_STATEMENT_TYPES ==
    {"Insert", "Update", "Delete", "Drop", "Create", "Alter", "Grant",
     "Revoke", "Set", "Command", "Use", "Merge"}

BUILTIN_DANGEROUS_FUNCTIONS ==
    {"pg_sleep", "pg_terminate_backend", "pg_cancel_backend", "pg_reload_conf",
     "pg_rotate_logfile", "pg_read_file", "pg_read_binary_file", "pg_ls_dir",
     "pg_stat_file", "lo_import", "lo_export", "dblink", "dblink_exec",
     "dblink_connect", "dblink_open", "pg_write_file", "pg_execute_sql",
     "copy_from", "copy_to"}

\* A statement kind that is neither allowed nor forbidden (TRUNCATE).
OtherStatementTypes == {"TruncateTable"}

isinstance(node, types) == node.kind \in types

Node(kind, parent, where, this) ==
    [kind |-> kind, parent |-> parent, where |-> where, this |-> this, items |-> {}]

Table(name, alias) == [t |-> "Table", name |-> name, q |-> alias]
Column(name, table) == [t |-> "Column", name |-> name, q |-> table]
Func(name) == [t |-> "Func", name |-> name, q |-> ""]

RECURSIVE IsAncestorOrSelf(_, _, _)
IsAncestorOrSelf(tree, a, n) ==
    \/ n = a
    \/ tree[n].parent # 0 /\ IsAncestorOrSelf(tree, a, tree[n].parent)

\* Expression.find_all(type) from node a: a itself and its descendants.
find_all(tree, a, types) ==
    {n \in 1..Len(tree) : IsAncestorOrSelf(tree, a, n) /\ isinstance(tree[n], types)}

\* find_all(exp.Table | exp.Column | exp.Func) from node a.
find_all_items(tree, a, type) ==
    UNION {{i \in tree[n].items : i.t = type} :
             n \in {m \in 1..Len(tree) : IsAncestorOrSelf(tree, a, m)}}

\* node.this of a With, Subquery or CTE: its child, or None.
ThisOf(tree, n) ==
    LET kids == {c \in 1..Len(tree) : tree[c].parent = n}
    IN IF kids = {} THEN 0 ELSE CHOOSE c \in kids : \A d \in kids : c <= d

\* The first element, in traversal order, of a non-empty set of nodes.
First(S) == CHOOSE n \in S : \A m \in S : n <= m

(***************************************************************************)
(* sqlglot.parse(sql, read="postgres"), by the shape of the input text.    *)
(***************************************************************************)
SqlShapes == {"empty", "blank", "unparseable", "nothing", "comment", "multi", "single"}

\* not sql or not sql.strip()
IsBlank(sql) == sql.shape \in {"empty", "blank"}

\* The outcome of sqlglot.parse: raised, or the list of statements, of which
\* the model keeps the length and the first one (0 stands for None).
sqlglot_parse(sql) ==
    CASE sql.shape = "unparseable" -> [raised |-> TRUE, len |-> 0, first |-> 0]
      [] sql.shape = "nothing" -> [raised |-> FALSE, len |-> 0, first |-> 0]
      [] sql.shape = "comment" -> [raised |-> FALSE, len |-> 1, first |-> 0]
      [] sql.shape = "multi" -> [raised |-> FALSE, len |-> 2, first |-> 1]
      [] OTHER -> [raised |-> FALSE, len |-> 1, first |-> 1]

(***************************************************************************)
(* SQLValidator.__init__                                                   *)
(***************************************************************************)
SQLValidator_init(config, blocked_tables, blocked_columns, allow_explain) ==
    [blocked_table_patterns |->
        {Lower(t) : t \in (IF blocked_tables # {} THEN blocked_tables
                           ELSE config.blocked_tables)},
     blocked_columns_map |-> config.blocked_columns,
     blocked_columns_simple |-> {Lower(c) : c \in blocked_columns},
     allow_explain |-> IF allow_explain = FALSE THEN config.allow_explain
                       ELSE allow_explain,
     require_where_clause |-> {Lower(t) : t \in config.require_where_clause},
     max_join_tables |-> config.max_join_tables,
     blocked_functions |-> BUILTIN_DANGEROUS_FUNCTIONS \cup
                           {Lower(f) : f \in config.blocked_functions}]

(***************************************************************************)
(* The checks.  Each returns None or the message of the first violation:   *)
(* NoError stands for None, Violation(..) for a returned message.          *)
(***************************************************************************)
NoError == [err |-> FALSE, reason |-> "", detail |-> <<>>]
Violation(reason, detail) == [err |-> TRUE, reason |-> reason, detail |-> detail]

\* Mutant: the check for an allowed type is dropped, only forbidden types fail.
_check_statement_type_ForbiddenOnly(tree, statement) ==
    IF isinstance(tree[statement], FORBIDDEN_STATEMENT_TYPES)
    THEN Violation("statements are not allowed", <<tree[statement].kind>>)
    ELSE NoError

_check_statement_type(tree, statement) ==
    IF isinstance(tree[statement], FORBIDDEN_STATEMENT_TYPES)
    THEN Violation("statements are not allowed", <<tree[statement].kind>>)
    ELSE IF ~isinstance(tree[statement], ALLOWED_STATEMENT_TYPES)
    THEN Violation("Statement type is not allowed", <<tree[statement].kind>>)
    ELSE NoError

_check_dangerous_functions(self, tree, statement) ==
    LET bad == {f \in find_all_items(tree, statement, "Func") :
                  Lower(f.name) \in self.blocked_functions}
    IN IF bad # {}
       THEN Violation("Function is blocked", <<Lower((CHOOSE f \in bad : TRUE).name)>>)
       ELSE NoError

_check_blocked_tables(self, tree, statement) ==
    LET bad == {t \in find_all_items(tree, statement, "Table") :
                  \E p \in self.blocked_table_patterns : fnmatch(Lower(t.name), p)}
    IN IF self.blocked_table_patterns = {} THEN NoError
       ELSE IF bad # {}
       THEN Violation("Access to table is not allowed", <<Lower((CHOOSE t \in bad : TRUE).name)>>)
       ELSE NoError

\* The violation a column reference gives, or NoError.
BlockedColumn(self, column) ==
    LET column_name == Lower(column.name)
        table_name == Lower(column.q)
    IN IF column_name \in self.blocked_columns_simple
       THEN Violation("Access to column is not allowed", <<"", column_name>>)
       ELSE IF /\ column.q # ""
               /\ table_name \in DOMAIN self.blocked_columns_map
               /\ column_name \in {Lower(c) : c \in self.blocked_columns_map[table_name]}
       THEN Violation("Access to column is not allowed", <<table_name, column_name>>)
       ELSE NoError

_check_blocked_columns(self, tree, statement) ==
    LET bad == {c \in find_all_items(tree, statement, "Column") :
                  BlockedColumn(self, c).err}
    IN IF DOMAIN self.blocked_columns_map = {} /\ self.blocked_columns_simple = {}
       THEN NoError
       ELSE IF bad # {} THEN BlockedColumn(self, CHOOSE c \in bad : TRUE)
       ELSE NoError

\* The violation a Subquery node gives, or NoError.
UnsafeSubquery(tree, subquery) ==
    LET inner_stmt == ThisOf(tree, subquery)
    IN IF inner_stmt = 0 THEN NoError
       ELSE IF isinstance(tree[inner_stmt], FORBIDDEN_STATEMENT_TYPES)
       THEN Violation("statements in subqueries are not allowed", <<tree[inner_stmt].kind>>)
       ELSE IF ~isinstance(tree[inner_stmt], {"Select", "With"})
       THEN Violation("Subqueries must contain only SELECT statements", <<tree[inner_stmt].kind>>)
       ELSE NoError

_check_subquery_safety(tree, statement) ==
    LET bad == {s \in find_all(tree, statement, {"Subquery"}) :
                  UnsafeSubquery(tree, s).err}
    IN IF bad # {} THEN UnsafeSubquery(tree, First(bad)) ELSE NoError

\* Mutant: only the tables of the SELECT's own FROM and JOIN clauses.
TablesInSelect_OwnOnly(tree, select_stmt) ==
    {Lower(t.name) : t \in {x \in tree[select_stmt].items : x.t = "Table" /\ x.name # ""}}

\* tables_in_select / tables of the two Phase 5 checks.
TablesInSelect(tree, select_stmt) ==
    {Lower(t.name) : t \in {x \in find_all_items(tree, select_stmt, "Table") : x.name # ""}}

_check_where_clause_requirement(self, tree, statement) ==
    LET bad == {s \in find_all(tree, statement, {"Select"}) :
                  /\ self.require_where_clause \cap TablesInSelect(tree, s) # {}
                  /\ ~tree[s].where}
    IN IF self.require_where_clause = {} THEN NoError
       ELSE IF bad # {}
       THEN Violation("Table requires a WHERE clause",
              <<CHOOSE r \in self.require_where_clause \cap TablesInSelect(tree, First(bad)) : TRUE>>)
       ELSE NoError

\* Mutant: the cap is compared with >= instead of >.
_check_join_limit_Ge(self, tree, statement) ==
    IF \E s \in find_all(tree, statement, {"Select"}) :
          Cardinality({Lower(t.name) : t \in find_all_items(tree, s, "Table")})
              >= self.max_join_tables
    THEN Violation("Query joins too many tables", <<>>)
    ELSE NoError

_check_join_limit(self, tree, statement) ==
    LET bad == {s \in find_all(tree, statement, {"Select"}) :
                  Cardinality(TablesInSelect(tree, s)) > self.max_join_tables}
    IN IF bad # {}
       THEN Violation("Query joins too many tables",
              <<Cardinality(TablesInSelect(tree, First(bad))), self.max_join_tables>>)
       ELSE NoError

(***************************************************************************)
(* SQLValidator.validate_or_raise and validate                             *)
(***************************************************************************)
Returned == [cls |-> "ok", reason |-> "", detail |-> <<>>]
Raise(cls, reason, detail) == [cls |-> cls, reason |-> reason, detail |-> detail]

\* The first check, in the order of the code, that returns a message.
SecurityChecks(self, tree, statement, main_query) ==
    LET e1 == _check_statement_type(tree, main_query)
        e2 == _check_dangerous_functions(self, tree, statement)
        e3 == _check_blocked_tables(self, tree, statement)
        e4 == _check_blocked_columns(self, tree, statement)
        e5 == _check_subquery_safety(tree, statement)
        e6 == _check_where_clause_requirement(self, tree, statement)
        e7 == _check_join_limit(self, tree, statement)
    IN CASE e1.err -> Raise("SecurityViolationError", e1.reason, e1.detail)
         [] e2.err -> Raise("SecurityViolationError", e2.reason, e2.detail)
         [] e3.err -> Raise("SecurityViolationError", e3.reason, e3.detail)
         [] e4.err -> Raise("SecurityViolationError", e4.reason, e4.detail)
         [] e5.err -> Raise("SecurityViolationError", e5.reason, e5.detail)
         [] e6.err -> Raise("SecurityViolationError", e6.reason, e6.detail)
         [] e7.err -> Raise("SecurityViolationError", e7.reason, e7.detail)
         [] OTHER -> Returned

\* Mutant: EXPLAIN passes whatever allow_explain is.
HandleCommand_IgnoresFlag(self, tree, statement) ==
    IF tree[statement].this # "" /\ Upper(tree[statement].this) = "EXPLAIN"
    THEN Returned
    ELSE Raise("SecurityViolationError", "Command is not allowed", <<>>)

\* The Command branch: EXPLAIN by allow_explain, every other command rejected.
HandleCommand(self, tree, statement) ==
    LET cmd_name == IF tree[statement].this # "" THEN Upper(tree[statement].this) ELSE ""
    IN IF cmd_name = "EXPLAIN"
       THEN IF ~self.allow_explain
            THEN Raise("SecurityViolationError", "EXPLAIN statements are not allowed", <<>>)
            ELSE Returned
       ELSE Raise("SecurityViolationError", "Command is not allowed", <<cmd_name>>)

\* Mutant: the statement count is not checked, the first statement is validated.
MultipleStatements_Never(parsed) == FALSE

\* len(parsed) > 1
MultipleStatements(parsed) == parsed.len > 1

\* not parsed, or parsed[0] is None
NoStatement(parsed) == parsed.len = 0 \/ parsed.first = 0

\* main_query of a statement: the body of a top-level With (0 when it has
\* none), the statement itself otherwise.
MainQuery(tree, statement) ==
    IF isinstance(tree[statement], {"With"}) THEN ThisOf(tree, statement) ELSE statement

validate_or_raise(self, sql) ==
    LET parsed == sqlglot_parse(sql)
        tree == sql.tree
        statement == parsed.first
    IN IF IsBlank(sql)
       THEN Raise("SQLParseError", "SQL query cannot be empty", <<>>)
       ELSE IF parsed.raised
       THEN Raise("SQLParseError", "Failed to parse SQL", <<>>)
       ELSE IF MultipleStatements(parsed)
       THEN Raise("SecurityViolationError", "Multiple statements not allowed", <<>>)
       ELSE IF NoStatement(parsed)
       THEN Raise("SQLParseError", "No valid SQL statement found", <<>>)
       ELSE IF isinstance(tree[statement], {"Command"})
       THEN HandleCommand(self, tree, statement)
       ELSE IF MainQuery(tree, statement) = 0
       THEN Raise("SQLParseError", "WITH statement has no main query", <<>>)
       ELSE SecurityChecks(self, tree, statement, MainQuery(tree, statement))

validate(self, sql) ==
    LET r == validate_or_raise(self, sql)
    IN [is_valid |-> r.cls = "ok", error_message |-> r.reason]

(***************************************************************************)
(* retry.py.  Exceptions are records [cls, id]: the class and the identity *)
(* of the object (the invocation that raised it).  Delays are integers.    *)
(***************************************************************************)
NoException == [cls |-> "", id |-> 0]
Exception(cls, id) == [cls |-> cls, id |-> id]

\* The subclasses of PgMcpError the orchestrator imports.
PgMcpErrors == {"LLMError", "DatabaseError", "SchemaLoadError",
                "SecurityViolationError", "SQLParseError", "ValidationError"}

\* Mutant: asyncio.CancelledError derives from Exception (as before Python 3.8).
issubclass_CancelledIsException(cls, base) ==
    \/ cls = base
    \/ base = "Exception" /\ cls \in {"ValueError", "TypeError", "RuntimeError", "CancelledError",
                                     "RetryExhaustedError", "PgMcpError"} \cup PgMcpErrors
    \/ base = "PgMcpError" /\ cls \in PgMcpErrors

\* issubclass(cls, base) for the exception classes of the model.
\* asyncio.CancelledError derives from BaseException, not from Exception.
issubclass(cls, base) ==
    \/ cls = base
    \/ base = "Exception" /\ cls \in {"ValueError", "TypeError", "RuntimeError",
                                     "RetryExhaustedError", "PgMcpError"} \cup PgMcpErrors
    \/ base = "PgMcpError" /\ cls \in PgMcpErrors

\* Mutant: max_delay is not compared with initial_delay.
RetryConfig_init_NoMaxDelayCheck(config) ==
    IF \/ config.max_attempts < 1
       \/ config.initial_delay < 0
       \/ config.backoff_factor < 1
    THEN "ValueError" ELSE "ok"

\* RetryConfig.__init__: "ok", or "ValueError" for invalid parameters.
RetryConfig_init(config) ==
    IF \/ config.max_attempts < 1
       \/ config.initial_delay < 0
       \/ config.backoff_factor < 1
       \/ config.max_delay < config.initial_delay
    THEN "ValueError" ELSE "ok"

RECURSIVE Pow(_, _)
Pow(b, n) == IF n = 0 THEN 1 ELSE b * Pow(b, n - 1)

Min(a, b) == IF a <= b THEN a ELSE b

\* Mutant: the delay is not capped at max_delay.
calculate_delay_Uncapped(config, n) == config.initial_delay * Pow(config.backoff_factor, n)

\* RetryConfig.calculate_delay
calculate_delay(config, n) ==
    Min(config.initial_delay * Pow(config.backoff_factor, n), config.max_delay)

\* Mutant: any exception is caught by the except clause.
Caught_Any(e, retriable_exceptions) == TRUE

\* except config.retriable_exceptions as e: does the clause catch e?
Caught(e, retriable_exceptions) ==
    \E base \in retriable_exceptions : issubclass(e.cls, base)

\* Mutant: the last attempt is taken to be the one after the final one.
is_last_attempt_OffByOne(config, n) == n = config.max_attempts

\* is_last_attempt = attempt == config.max_attempts - 1
is_last_attempt(config, n) == n = config.max_attempts - 1

\* Mutant: the result is returned only from inside "if attempt > 0".
ReturnResult_OnlyAfterRetry(n) == n > 0

\* return result: whatever the attempt, the result of func is returned.
ReturnResult(n) == TRUE

RetryExhaustedError(attempts, last_error) ==
    [kind |-> "raised", cls |-> "RetryExhaustedError", err |-> NoException,
     attempts |-> attempts, last_error |-> last_error, cause |-> last_error]

\* An exception leaving the wrapper as it is.
Propagated(e) ==
    [kind |-> "raised", cls |-> e.cls, err |-> e,
     attempts |-> 0, last_error |-> NoException, cause |-> NoException]

ReturnedResult ==
    [kind |-> "returned", cls |-> "", err |-> NoException,
     attempts |-> 0, last_error |-> NoException, cause |-> NoException]

NotEnded ==
    [kind |-> "none", cls |-> "", err |-> NoException,
     attempts |-> 0, last_error |-> NoException, cause |-> NoException]

\* The wrapper before a call: no with_retry call is in progress.
RetryIdle ==
    /\ rcfg = [max_attempts |-> 1, initial_delay |-> 0, backoff_factor |-> 1,
               max_delay |-> 0, retriable_exceptions |-> {"Exception"}]
    /\ rpc = "idle"
    /\ attempt = 0
    /\ calls = 0
    /\ sleeps = <<>>
    /\ last_exception = NoException
    /\ rout = NotEnded
    /\ rhist = <<>>

\* await func(*args, **kwargs) returns: the wrapper returns the result.
FuncReturns ==
    /\ rpc = "call"
    /\ calls' = calls + 1
    /\ rhist' = Append(rhist, NoException)
    /\ IF ReturnResult(attempt)
       THEN /\ rout' = ReturnedResult
            /\ rpc' = "done"
            /\ UNCHANGED attempt
       ELSE /\ attempt' = attempt + 1
            /\ IF attempt + 1 < rcfg.max_attempts
               THEN /\ rpc' = "call"
                    /\ UNCHANGED rout
               ELSE /\ rpc' = "done"
                    /\ rout' = IF last_exception # NoException
                               THEN Propagated(last_exception)
                               ELSE Propagated(Exception("RuntimeError", 0))
    /\ UNCHANGED <<rcfg, sleeps, last_exception>>

\* await func(*args, **kwargs) raises an exception of class cls.
FuncRaises(cls) ==
    LET e == Exception(cls, calls + 1)
    IN /\ rpc = "call"
       /\ calls' = calls + 1
       /\ rhist' = Append(rhist, e)
       /\ IF Caught(e, rcfg.retriable_exceptions)
          THEN /\ last_exception' = e
               /\ IF is_last_attempt(rcfg, attempt)
                  THEN /\ rout' = RetryExhaustedError(rcfg.max_attempts, e)
                       /\ rpc' = "done"
                  ELSE /\ rpc' = "sleep"
                       /\ UNCHANGED rout
          ELSE /\ rout' = Propagated(e)
               /\ rpc' = "done"
               /\ UNCHANGED last_exception
       /\ UNCHANGED <<rcfg, attempt, sleeps>>

\* await asyncio.sleep(delay) ends and the loop goes on; past the last
\* index the loop is left and last_exception is raised.
SleepEnds ==
    /\ rpc = "sleep"
    /\ sleeps' = Append(sleeps, calculate_delay(rcfg, attempt))
    /\ attempt' = attempt + 1
    /\ IF attempt + 1 < rcfg.max_attempts
       THEN /\ rpc' = "call"
            /\ UNCHANGED rout
       ELSE /\ rpc' = "done"
            /\ rout' = IF last_exception # NoException THEN Propagated(last_exception)
                       ELSE Propagated(Exception("RuntimeError", 0))
    /\ UNCHANGED <<rcfg, calls, last_exception, rhist>>

(***************************************************************************)
(* orchestrator.py.  SQL strings are the texts below, each with the parse  *)
(* the validator sees.  An exception is its class; a PgMcpError carries    *)
(* the code of its class.                                                  *)
(***************************************************************************)
None == "<None>"

SelectUsers == "SELECT * FROM users WHERE id=1"
DeleteUsers == "DELETE FROM users WHERE id=1"
ExplainSelect == "EXPLAIN SELECT * FROM users"
Unparseable == "SELEC * FORM"
Blank == "  "

GeneratedTexts == {SelectUsers, DeleteUsers, ExplainSelect, Unparseable, Blank}

\* What the validator makes of each text.
ParsedText(text) ==
    CASE text = SelectUsers ->
            [shape |-> "single",
             tree |-> <<[Node("Select", 0, TRUE, "") EXCEPT !.items = {Table("users", "")}]>>]
      [] text = DeleteUsers ->
            [shape |-> "single", tree |-> <<Node("Delete", 0, FALSE, "")>>]
      [] text = ExplainSelect ->
            [shape |-> "single", tree |-> <<Node("Command", 0, FALSE, "EXPLAIN")>>]
      [] text = Unparseable -> [shape |-> "unparseable", tree |-> <<>>]
      [] OTHER -> [shape |-> "blank", tree |-> <<>>]

\* e.code.value of a PgMcpError of the class (pg_mcp.models.errors).
ErrorCode(cls) ==
    CASE cls = "LLMError" -> "LLM_ERROR"
      [] cls = "DatabaseError" -> "DATABASE_ERROR"
      [] cls = "SchemaLoadError" -> "SCHEMA_LOAD_ERROR"
      [] cls = "SecurityViolationError" -> "SECURITY_VIOLATION"
      [] cls = "SQLParseError" -> "SQL_PARSE_ERROR"
      [] OTHER -> "VALIDATION_ERROR"

NoDetails == [none |-> TRUE]

\* data=None of a QueryResponse.
NoData == [null |-> TRUE]

\* A row of a result: column and value pairs, in the order of the columns.
Row(i) == <<<<"id", i>>, <<"name", i>>>>

\* list(row.keys())
keys(row) == [k \in 1..Len(row) |-> row[k][1]]

\* SQLExecutor.execute(sql) -> (results, total_count) for a query producing
\* the given number of rows: at most max_rows rows, and the count either of
\* the rows the query would have produced or of those returned.
execute(rows, max_rows, counted) ==
    LET n == IF rows < max_rows THEN rows ELSE max_rows
    IN [results |-> [i \in 1..n |-> Row(i)],
        total_count |-> IF counted THEN rows ELSE n]

NoResults == [results |-> <<>>, total_count |-> 0]

\* Mutant: row_count is the total count the executor reported.
QueryResult_TotalCount(res, total_count) ==
    [columns |-> IF Len(res) > 0 THEN keys(res[1]) ELSE <<>>,
     rows |-> res, row_count |-> total_count]

\* QueryResult(columns=list(results[0].keys()) if results else [],
\*             rows=results, row_count=len(results), ...)
QueryResult(res, total_count) ==
    [columns |-> IF Len(res) > 0 THEN keys(res[1]) ELSE <<>>,
     rows |-> res, row_count |-> Len(res)]

\* validation=None of a response.
NoValidation == [null |-> TRUE]

\* ValidationResult(is_valid=True, is_select=True, allows_data_modification=False,
\*                  uses_blocked_functions=[], error_message=None): what
\* _generate_sql_with_retry returns with the SQL it accepted.
ValidationResult ==
    [is_valid |-> TRUE, is_select |-> TRUE, allows_data_modification |-> FALSE,
     uses_blocked_functions |-> <<>>, error_message |-> None]

\* validation=validation_result, tokens_used=tokens_used of a response;
\* tokens_used is None all through _generate_sql_with_retry.
WithValidation(resp, validation_result) == [resp EXCEPT !.validation = validation_result]

\* Mutant: the error is left out of the response.
QueryResponse_ErrorDropped(success, sql, data, code, confidence) ==
    [success |-> success, generated_sql |-> sql, data |-> data,
     error |-> None, message |-> "", details |-> NoDetails, confidence |-> confidence,
     validation |-> NoValidation, tokens_used |-> None]

\* QueryResponse(success, generated_sql, validation=None, data, error,
\*               confidence, tokens_used=None)
QueryResponse(success, sql, data, code, confidence) ==
    [success |-> success, generated_sql |-> sql, data |-> data,
     error |-> code, message |-> "", details |-> NoDetails, confidence |-> confidence,
     validation |-> NoValidation, tokens_used |-> None]

\* QueryResponse(success=False, ..., error=ErrorDetail(code, message, details))
ErrorResponse(sql, code, message, details, confidence) ==
    [QueryResponse(FALSE, sql, NoData, code, confidence)
        EXCEPT !.message = message, !.details = details]

NoResponse == QueryResponse(FALSE, None, NoData, "<pending>", 0)

\* A raised exception of the class, with its message and details.
Raised(cls, message, details) == [cls |-> cls, message |-> message, details |-> details]

\* No exception.
NotRaised == Raised("none", "", NoDetails)

\* CircuitBreaker(failure_threshold, recovery_timeout): CLOSED, no failures.
\* elapsed: recovery_timeout has passed since the breaker opened.
CircuitBreaker(failure_threshold) ==
    [state |-> "CLOSED", failure_count |-> 0, failure_threshold |-> failure_threshold,
     elapsed |-> FALSE]

\* Mutant: a half-open breaker admits every caller.
allow_request_HalfOpenAdmits(cb) ==
    CASE cb.state = "OPEN" /\ ~cb.elapsed -> [admit |-> FALSE, cb |-> cb]
      [] cb.state = "OPEN" -> [admit |-> TRUE, cb |-> [cb EXCEPT !.state = "HALF_OPEN"]]
      [] OTHER -> [admit |-> TRUE, cb |-> cb]

\* CircuitBreaker.allow_request: the answer and the breaker afterwards.
allow_request(cb) ==
    CASE cb.state = "CLOSED" -> [admit |-> TRUE, cb |-> cb]
      [] cb.state = "OPEN" /\ cb.elapsed ->
            [admit |-> TRUE, cb |-> [cb EXCEPT !.state = "HALF_OPEN"]]
      [] OTHER -> [admit |-> FALSE, cb |-> cb]

\* CircuitBreaker.record_success
record_success(cb) ==
    IF cb.state = "OPEN" THEN cb
    ELSE [cb EXCEPT !.state = "CLOSED", !.failure_count = 0, !.elapsed = FALSE]

\* Mutant: the breaker opens one failure late.
record_failure_OneLate(cb) ==
    CASE cb.state = "HALF_OPEN" -> [cb EXCEPT !.state = "OPEN", !.elapsed = FALSE]
      [] cb.state = "CLOSED" /\ cb.failure_count + 1 > cb.failure_threshold ->
            [cb EXCEPT !.state = "OPEN", !.failure_count = @ + 1, !.elapsed = FALSE]
      [] cb.state = "CLOSED" -> [cb EXCEPT !.failure_count = @ + 1]
      [] OTHER -> cb

\* CircuitBreaker.record_failure
record_failure(cb) ==
    CASE cb.state = "HALF_OPEN" -> [cb EXCEPT !.state = "OPEN", !.elapsed = FALSE]
      [] cb.state = "CLOSED" /\ cb.failure_count + 1 >= cb.failure_threshold ->
            [cb EXCEPT !.state = "OPEN", !.failure_count = @ + 1, !.elapsed = FALSE]
      [] cb.state = "CLOSED" -> [cb EXCEPT !.failure_count = @ + 1]
      [] OTHER -> cb

\* Mutant: one more attempt than max_retries.
_db_retry_config_OneMore(o) ==
    [max_attempts |-> o.max_retries + 1, initial_delay |-> 1, backoff_factor |-> 2,
     max_delay |-> 30, retriable_exceptions |-> {"DatabaseError"}]

\* self._db_retry_config
_db_retry_config(o) ==
    [max_attempts |-> o.max_retries, initial_delay |-> 1, backoff_factor |-> 2,
     max_delay |-> 30, retriable_exceptions |-> {"DatabaseError"}]

\* The mutable state of one execute_query call, as a record.
Running ==
    [pc |-> opc, cb |-> circuit_breaker, gen |-> gen, sql |-> generated_sql,
     db |-> db_attempt, resp |-> response, validated |-> validated, executed |-> executed,
     database_name |-> database_name, trace |-> trace, streak |-> llm_streak,
     generated |-> last_generated, results |-> results, measured |-> measured,
     produced |-> produced, metrics |-> metrics, probing |-> probing, caught |-> caught]

NoGen == [attempt |-> 0, previous_sql |-> None, error_feedback |-> None]

\* How result_validator.validate ended in this request: "returned" with a
\* confidence, "raised", or "none" when it has not ended.
Measured(how, confidence) == [how |-> how, confidence |-> confidence]

NotMeasured == Measured("none", 0)

\* Mutant: an exception of the result validator counts as confidence 0.
_validate_results_safely_RaiseIsZero(enabled, outcome) ==
    IF ~enabled THEN 100
    ELSE IF outcome.how = "raised" THEN 0 ELSE outcome.confidence

\* QueryOrchestrator._validate_results_safely: the confidence it returns.
_validate_results_safely(enabled, outcome) ==
    IF ~enabled THEN 100
    ELSE IF outcome.how = "raised" THEN 100 ELSE outcome.confidence

\* Nothing reported to metrics in this request.
NoMetrics == [query_duration |-> 0, query_requests_total |-> <<>>]

\* metrics.query_duration.observe(query_duration);
\* metrics.increment_query_request(status, database_name)
Observe(st, status) ==
    [st EXCEPT !.metrics = [query_duration |-> @.query_duration + 1,
                            query_requests_total |->
                                Append(@.query_requests_total, <<status, st.database_name>>)]]

\* Mutant: a SQLParseError is counted under "error".
Status_ParseErrorIsError(e) ==
    IF issubclass(e.cls, "SecurityViolationError") THEN "security_violation"
    ELSE IF issubclass(e.cls, "ValidationError") THEN "validation_failed"
    ELSE "error"

\* The status label the except clause for PgMcpError counts the request under.
Status(e) ==
    IF issubclass(e.cls, "SecurityViolationError") THEN "security_violation"
    ELSE IF issubclass(e.cls, "SQLParseError") \/ issubclass(e.cls, "ValidationError")
    THEN "validation_failed"
    ELSE "error"

\* The call of a collaborator is noted in the trace of the request.
Log(st, event) == [st EXCEPT !.trace = Append(@, event)]

\* return QueryResponse(...): the call is over and its locals are gone.
Return(st, resp) ==
    [st EXCEPT !.pc = "responded", !.resp = resp, !.gen = NoGen, !.sql = None, !.db = 0,
               !.results = NoResults, !.streak = 0]

\* An exception no except clause of execute_query catches leaves the call:
\* no response is returned.
Escapes(st, e) == [Return(st, NoResponse) EXCEPT !.pc = "raised", !.caught = e]

\* Mutant: the response to a PgMcpError carries the SQL generated so far.
Except_KeepsSql(st, e) ==
    IF issubclass(e.cls, "PgMcpError")
    THEN Return(Observe([st EXCEPT !.caught = e], Status(e)),
                ErrorResponse(st.sql, ErrorCode(e.cls), e.message, e.details, 0))
    ELSE IF issubclass(e.cls, "Exception")
    THEN Return(Observe([st EXCEPT !.caught = e], "error"),
                ErrorResponse(None, "INTERNAL_ERROR", "Internal server error",
                              [error_type |-> e.cls], 0))
    ELSE Escapes(st, e)

\* Mutant: only a PgMcpError is caught, any other exception leaves the call.
Except_UnknownEscapes(st, e) ==
    IF issubclass(e.cls, "PgMcpError")
    THEN Return(Observe([st EXCEPT !.caught = e], Status(e)),
                ErrorResponse(None, ErrorCode(e.cls), e.message, e.details, 0))
    ELSE Escapes(st, e)

\* The except clauses of execute_query: a PgMcpError gives its code, message
\* and details, any other Exception INTERNAL_ERROR; generated_sql is None
\* either way.
Except(st, e) ==
    IF issubclass(e.cls, "PgMcpError")
    THEN Return(Observe([st EXCEPT !.caught = e], Status(e)),
                ErrorResponse(None, ErrorCode(e.cls), e.message, e.details, 0))
    ELSE IF issubclass(e.cls, "Exception")
    THEN Return(Observe([st EXCEPT !.caught = e], "error"),
                ErrorResponse(None, "INTERNAL_ERROR", "Internal server error",
                              [error_type |-> e.cls], 0))
    ELSE Escapes(st, e)

\* An awaited call ends by raising the class; asyncio.CancelledError is what
\* it raises when the request is cancelled while suspended in it.
Raises(st, cls) == IF cls = "CancelledError" THEN Log(st, "CancelledError") ELSE st

\* QueryOrchestrator._resolve_database
_resolve_database(pools, database) ==
    IF database # None
    THEN IF database \notin pools
         THEN [raised |-> TRUE, name |-> None,
               e |-> Raised("DatabaseError", "Database not found",
                            [requested_database |-> database,
                             available_databases |-> pools])]
         ELSE [raised |-> FALSE, name |-> database, e |-> NoException]
    ELSE IF Cardinality(pools) = 0
         THEN [raised |-> TRUE, name |-> None,
               e |-> Raised("DatabaseError", "No databases configured", NoDetails)]
    ELSE IF Cardinality(pools) = 1
         THEN [raised |-> FALSE, name |-> CHOOSE d \in pools : TRUE, e |-> NoException]
         ELSE [raised |-> TRUE, name |-> None,
               e |-> Raised("DatabaseError",
                            "Multiple databases available, please specify which to query",
                            [available_databases |-> pools])]

\* Entry of _generate_sql_with_retry: the breaker is asked, then the loop starts.
EnterGenerate(st) ==
    LET a == allow_request(st.cb)
        asked == Log([st EXCEPT !.cb = a.cb,
                                !.probing = @ \/ (a.admit /\ st.cb.state = "OPEN")],
                     IF a.admit THEN "allow_request:true" ELSE "allow_request:false")
    IN IF ~a.admit
       THEN Except(asked,
                   Raised("LLMError",
                          "SQL generation service is temporarily unavailable (circuit breaker open)",
                          [circuit_state |-> a.cb.state,
                           failure_count |-> a.cb.failure_count]))
       ELSE Log([asked EXCEPT !.pc = "generate", !.gen = NoGen], "generate")

\* str(validation_error): the message of the error.
str(e) == e.reason

\* Mutant: the feedback of the first rejection is kept for all later attempts.
Feedback_KeepsFirst(g, generated, validation_error) ==
    IF g.attempt = 0
    THEN [attempt |-> 1, previous_sql |-> generated,
          error_feedback |-> str(validation_error)]
    ELSE [g EXCEPT !.attempt = @ + 1]

\* previous_sql = generated_sql; error_feedback = str(validation_error);
\* continue: the locals of the next attempt.
Feedback(g, generated, validation_error) ==
    [attempt |-> g.attempt + 1, previous_sql |-> generated,
     error_feedback |-> str(validation_error)]

\* Mutant: the generated SQL is returned without being validated.
GenerateStep_Unvalidated(self, text, n, max_retries) == "return"

\* Mutant: a rejection on the last attempt is followed by one more attempt.
GenerateStep_OneMore(self, text, n, max_retries) ==
    LET v == validate_or_raise(self, ParsedText(text))
    IN IF v.cls \in {"SecurityViolationError", "SQLParseError"}
       THEN IF n <= max_retries THEN "continue" ELSE "raise"
       ELSE "return"

\* What the loop body does with a generated text: validate_or_raise, then
\* continue with feedback, raise, or return the SQL.
GenerateStep(self, text, n, max_retries) ==
    LET v == validate_or_raise(self, ParsedText(text))
    IN IF v.cls \in {"SecurityViolationError", "SQLParseError"}
       THEN IF n < max_retries THEN "continue" ELSE "raise"
       ELSE "return"

\* Mutant: the RetryExhaustedError of the wrapper is not turned into a
\* DatabaseError.
ProtectedRaised_ExhaustedEscapes(st, e) ==
    LET config == _db_retry_config(orch)
    IN IF Caught(Exception(e.cls, 0), config.retriable_exceptions)
       THEN IF is_last_attempt(config, st.db)
            THEN Except(st, Raised("RetryExhaustedError", "All attempts failed",
                                   [last_error |-> e.message]))
            ELSE Log([st EXCEPT !.pc = "sleep"], "sleep")
       ELSE Except(st, e)

\* The except clause of the retry wrapper around _execute_with_protection,
\* and _execute_with_resilience turning RetryExhaustedError into DatabaseError.
ProtectedRaised(st, e) ==
    LET config == _db_retry_config(orch)
    IN IF Caught(Exception(e.cls, 0), config.retriable_exceptions)
       THEN IF is_last_attempt(config, st.db)
            THEN Except(st, Raised("DatabaseError", "Database execution failed after all attempts",
                                   [last_error |-> e.message]))
            ELSE Log([st EXCEPT !.pc = "sleep"], "sleep")
       ELSE Except(st, e)

\* _execute_with_protection from the breaker check to executor.execute(sql).
Admit(st) ==
    LET a == allow_request(st.cb)
        asked == Log([st EXCEPT !.cb = a.cb,
                                !.probing = @ \/ (a.admit /\ st.cb.state = "OPEN")],
                     IF a.admit THEN "allow_request:true" ELSE "allow_request:false")
    IN IF ~a.admit
       THEN ProtectedRaised(asked,
                Raised("DatabaseError",
                       "Database service temporarily unavailable (circuit breaker open)",
                       [circuit_state |-> a.cb.state, failure_count |-> a.cb.failure_count]))
       ELSE Log([asked EXCEPT !.pc = "execute", !.executed = @ \cup {st.sql}], "execute")

\* Mutant: the breaker is asked without acquiring from the rate limiter.
EnterProtected_NoAcquire(st) == Admit(st)

\* _execute_with_protection from its start.
EnterProtected(st) ==
    IF orch.rate_limiter THEN Log([st EXCEPT !.pc = "acquire"], "acquire") ELSE Admit(st)

\* Mutant: the SQL is executed whatever the return type.
AfterGenerate_IgnoresReturnType(st) == EnterProtected([st EXCEPT !.db = 0])

\* execute_query after _generate_sql_with_retry returned.
AfterGenerate(st) ==
    IF request.return_type = "sql"
    THEN Return(Observe(st, "success"),
                WithValidation(QueryResponse(TRUE, st.sql, NoData, None, 100),
                               ValidationResult))
    ELSE EnterProtected([st EXCEPT !.db = 0])

\* Mutant: a confidence equal to min_confidence_score is low too.
Finish_AtThreshold(st, confidence) ==
    IF confidence <= orch.min_confidence_score
    THEN Return(Observe(st, "low_confidence"),
                WithValidation(ErrorResponse(st.sql, "LOW_CONFIDENCE",
                                   "Result confidence is below the required threshold",
                                   [confidence |-> confidence,
                                    threshold |-> orch.min_confidence_score],
                                   confidence),
                               ValidationResult))
    ELSE Return(Observe(st, "success"),
                WithValidation(QueryResponse(TRUE, st.sql,
                                   QueryResult(st.results.results, st.results.total_count),
                                   None, confidence),
                               ValidationResult))

\* execute_query from the confidence check to the response.
Finish(st, confidence) ==
    IF confidence < orch.min_confidence_score
    THEN Return(Observe(st, "low_confidence"),
                WithValidation(ErrorResponse(st.sql, "LOW_CONFIDENCE",
                                   "Result confidence is below the required threshold",
                                   [confidence |-> confidence,
                                    threshold |-> orch.min_confidence_score],
                                   confidence),
                               ValidationResult))
    ELSE Return(Observe(st, "success"),
                WithValidation(QueryResponse(TRUE, st.sql,
                                   QueryResult(st.results.results, st.results.total_count),
                                   None, confidence),
                               ValidationResult))

Set(st) ==
    /\ opc' = st.pc
    /\ circuit_breaker' = st.cb
    /\ gen' = st.gen
    /\ generated_sql' = st.sql
    /\ db_attempt' = st.db
    /\ response' = st.resp
    /\ validated' = st.validated
    /\ executed' = st.executed
    /\ database_name' = st.database_name
    /\ trace' = st.trace
    /\ llm_streak' = st.streak
    /\ last_generated' = st.generated
    /\ results' = st.results
    /\ measured' = st.measured
    /\ produced' = st.produced
    /\ metrics' = st.metrics
    /\ probing' = st.probing
    /\ caught' = st.caught

\* Mutant: a question of exactly the maximum length is rejected too.
QuestionTooLong_AtLimit(req) == req.question >= orch.max_question_length

\* len(request.question) > self.validation_config.max_question_length
QuestionTooLong(req) == req.question > orch.max_question_length

\* execute_query is called: length gate, database resolution, schema lookup.
ExecuteQuery(req, cached) ==
    LET st == [Running EXCEPT !.validated = {}, !.executed = {}, !.resp = NoResponse,
                              !.trace = <<>>, !.database_name = "unknown",
                              !.generated = None, !.results = NoResults,
                              !.measured = NotMeasured, !.produced = 0,
                              !.metrics = NoMetrics, !.probing = FALSE,
                              !.caught = NotRaised]
        resolved == _resolve_database(orch.pools, req.database)
        named == [Log(st, "_resolve_database") EXCEPT !.database_name = resolved.name]
    IN /\ opc \in {"idle", "responded", "raised"}
       /\ request' = req
       /\ UNCHANGED orch
       /\ IF QuestionTooLong(req)
          THEN Set(Return(Observe(st, "validation_failed"),
                          ErrorResponse(None, "QUESTION_TOO_LONG",
                                        "Question exceeds maximum length",
                                        [question_length |-> req.question,
                                         max_length |-> orch.max_question_length],
                                        0)))
          ELSE IF resolved.raised
          THEN Set(Except(Log(st, "_resolve_database"), resolved.e))
          ELSE IF cached
          THEN Set(EnterGenerate(Log(named, "schema_cache.get")))
          ELSE Set([Log(Log(named, "schema_cache.get"), "schema_cache.load")
                        EXCEPT !.pc = "schema_load"])

\* await self.schema_cache.load(database_name, pool) returns.
SchemaLoadReturns ==
    /\ opc = "schema_load"
    /\ Set(EnterGenerate(Running))
    /\ UNCHANGED <<orch, request>>

\* await self.schema_cache.load(database_name, pool) raises.
SchemaLoadRaises(cls) ==
    /\ opc = "schema_load"
    /\ IF issubclass(cls, "Exception")
       THEN Set(Except(Raises(Running, cls),
                       Raised("SchemaLoadError", "Failed to load schema", [error |-> cls])))
       ELSE Set(Except(Raises(Running, cls), Raised(cls, "", NoDetails)))
    /\ UNCHANGED <<orch, request>>

\* Mutant: every rejection is recorded as a failure of the breaker.
Rejected_AlwaysRecorded(st, text, validation_error, last) ==
    IF ~last
    THEN Log(Log([st EXCEPT !.gen = Feedback(st.gen, text, validation_error),
                            !.cb = record_failure(@)],
                 "record_failure"), "generate")
    ELSE Except(Log([st EXCEPT !.cb = record_failure(@)], "record_failure"),
                Raised(validation_error.cls, validation_error.reason,
                       [detail |-> validation_error.detail]))

\* except (SecurityViolationError, SQLParseError) as validation_error: with
\* attempts remaining the loop continues with the feedback, otherwise the
\* failure is recorded and the error raised.
Rejected(st, text, validation_error, last) ==
    IF ~last
    THEN Log([st EXCEPT !.gen = Feedback(st.gen, text, validation_error)], "generate")
    ELSE Except(Log([st EXCEPT !.cb = record_failure(@)], "record_failure"),
                Raised(validation_error.cls, validation_error.reason,
                       [detail |-> validation_error.detail]))

\* await self.sql_generator.generate(...) returns text.
GenerateReturns(text) ==
    LET v == validate_or_raise(orch.sql_validator, ParsedText(text))
        step == GenerateStep(orch.sql_validator, text, gen.attempt, orch.max_retries)
        st == Log([Running EXCEPT !.generated = text,
                                  !.validated = IF v = Returned THEN @ \cup {text} ELSE @],
                  "validate_or_raise")
    IN /\ opc = "generate"
       /\ CASE step = "continue" -> Set(Rejected(st, text, v, FALSE))
            [] step = "raise" -> Set(Rejected(st, text, v, TRUE))
            [] OTHER ->
                 Set(AfterGenerate(Log([st EXCEPT !.cb = record_success(@), !.sql = text],
                                       "record_success")))
       /\ UNCHANGED <<orch, request>>

\* await self.sql_generator.generate(...) raises.  After an LLMError the
\* response counts one more request in a row ended by it.
GenerateRaises(cls) ==
    /\ opc = "generate"
    /\ IF cls \in {"LLMError", "SecurityViolationError", "SQLParseError"}
       THEN Set([Except(Raises(Running, cls), Raised(cls, "generation failed", NoDetails))
                    EXCEPT !.streak = IF cls # "LLMError" THEN 0
                                      ELSE IF llm_streak < circuit_breaker.failure_threshold
                                      THEN llm_streak + 1 ELSE llm_streak])
       ELSE IF issubclass(cls, "Exception")
       THEN Set(Except(Log([Raises(Running, cls) EXCEPT !.cb = record_failure(@)],
                           "record_failure"),
                       Raised("LLMError", "SQL generation failed unexpectedly",
                              [error_type |-> cls])))
       ELSE Set(Except(Raises(Running, cls), Raised(cls, "", NoDetails)))
    /\ UNCHANGED <<orch, request>>

\* await self.rate_limiter.acquire("database") returns.
AcquireReturns ==
    /\ opc = "acquire"
    /\ Set(Admit(Running))
    /\ UNCHANGED <<orch, request>>

\* await self.rate_limiter.acquire("database") raises: no handler of
\* _execute_with_protection is around it, the retry wrapper gets the error.
AcquireRaises(cls) ==
    /\ opc = "acquire"
    /\ Set(ProtectedRaised(Raises(Running, cls), Raised(cls, "", NoDetails)))
    /\ UNCHANGED <<orch, request>>

\* await executor.execute(sql) returns (results, total_count); the results go
\* to the result validator when it is enabled.
ExecuteReturns(rows, counted) ==
    LET st == Log([Log(Running, "execute:returned")
                      EXCEPT !.cb = record_success(@),
                             !.results = execute(rows, orch.max_rows, counted),
                             !.produced = rows],
                  "record_success")
    IN /\ opc = "execute"
       /\ IF ~orch.validation_enabled
          THEN Set(Finish(st, _validate_results_safely(FALSE, NotMeasured)))
          ELSE Set(Log([st EXCEPT !.pc = "validate_results"], "result_validator.validate"))
       /\ UNCHANGED <<orch, request>>

\* await executor.execute(sql) raises: an Exception is recorded as a failure
\* and a DatabaseError is raised in its place.
ExecuteRaises(cls) ==
    /\ opc = "execute"
    /\ IF issubclass(cls, "Exception")
       THEN Set(ProtectedRaised(Log([Log(Raises(Running, cls), "execute:raised")
                                        EXCEPT !.cb = record_failure(@)],
                                    "record_failure"),
                                Raised("DatabaseError", "Database execution failed",
                                       [error_type |-> cls])))
       ELSE Set(ProtectedRaised(Raises(Running, cls), Raised(cls, "", NoDetails)))
    /\ UNCHANGED <<orch, request>>

\* await asyncio.sleep(delay) of the retry wrapper returns: the next attempt.
BackoffEnds ==
    /\ opc = "sleep"
    /\ Set(EnterProtected([Running EXCEPT !.db = @ + 1]))
    /\ UNCHANGED <<orch, request>>

\* await asyncio.sleep(delay) of the retry wrapper raises: the sleep is in
\* an except clause of the wrapper, nothing catches the error there.
BackoffRaises(cls) ==
    /\ opc = "sleep"
    /\ Set(Except(Raises(Running, cls), Raised(cls, "", NoDetails)))
    /\ UNCHANGED <<orch, request>>

\* await self.result_validator.validate(...) returns a confidence.
ValidateResultsReturns(confidence) ==
    LET outcome == Measured("returned", confidence)
    IN /\ opc = "validate_results"
       /\ Set(Finish([Running EXCEPT !.measured = outcome],
                      _validate_results_safely(TRUE, outcome)))
       /\ UNCHANGED <<orch, request>>

\* await self.result_validator.validate(...) raises.
ValidateResultsRaises(cls) ==
    LET outcome == Measured("raised", 0)
    IN /\ opc = "validate_results"
       /\ IF issubclass(cls, "Exception")
          THEN Set(Finish([Raises(Running, cls) EXCEPT !.measured = outcome],
                          _validate_results_safely(TRUE, outcome)))
          ELSE Set(Except(Raises(Running, cls), Raised(cls, "", NoDetails)))
       /\ UNCHANGED <<orch, request>>

\* recovery_timeout passes while the breaker is open.
RecoveryTimeoutPasses ==
    /\ circuit_breaker.state = "OPEN"
    /\ ~circuit_breaker.elapsed
    /\ circuit_breaker' = [circuit_breaker EXCEPT !.elapsed = TRUE]
    /\ UNCHANGED <<orch, opc, request, gen, generated_sql, db_attempt, response,
                   validated, executed, database_name, trace, llm_streak,
                   last_generated, results, measured, produced, metrics, probing,
                   caught>>

NoRequest == [question |-> 0, database |-> None, return_type |-> "result"]

\* No orchestrator is in use.
OrchestratorIdle ==
    /\ orch = [pools |-> {}]
    /\ circuit_breaker = CircuitBreaker(1)
    /\ opc = "off"
    /\ request = NoRequest
    /\ gen = NoGen
    /\ generated_sql = None
    /\ db_attempt = 0
    /\ response = NoResponse
    /\ validated = {}
    /\ executed = {}
    /\ database_name = "unknown"
    /\ trace = <<>>
    /\ llm_streak = 0
    /\ last_generated = None
    /\ results = NoResults
    /\ measured = NotMeasured
    /\ produced = 0
    /\ metrics = NoMetrics
    /\ probing = FALSE
    /\ caught = NotRaised

\* The breaker harness at rest.
NoOperation == [op |-> "none", caller |-> 0, admit |-> FALSE, before |-> CircuitBreaker(1)]

BreakerHarnessIdle ==
    /\ callers = <<>>
    /\ bstreak = 0
    /\ bprobes = 0
    /\ blast = NoOperation

(***************************************************************************)
(* The schema cache (pg_mcp/cache/schema_cache.py) and the requests that   *)
(* look a schema up in it, running concurrently.  A DatabaseSchema is      *)
(* identified by the introspection that built it: the i-th introspection   *)
(* of a database builds schema i, and 0 stands for None.                   *)
(***************************************************************************)
Databases == {"db", "analytics"}

\* SchemaCache(config): no entry, no introspection in flight.
SchemaCache ==
    [entries |-> [n \in Databases |-> 0], loading |-> [n \in Databases |-> {}],
     introspections |-> [n \in Databases |-> 0]]

\* SchemaCache.get(name): the entry if present and unexpired, else None.
get(cache, name) == cache.entries[name]

\* Mutant: every load starts an introspection of its own.
load_NoCoalesce(cache, name) ==
    LET i == cache.introspections[name] + 1
    IN [cache |-> [cache EXCEPT !.loading[name] = @ \cup {i}, !.introspections[name] = i],
        joined |-> i]

\* SchemaCache.load(name, pool) up to its suspension: the caller joins the
\* introspection in flight for the name, or starts one when there is none.
load(cache, name) ==
    IF cache.loading[name] # {}
    THEN [cache |-> cache, joined |-> CHOOSE i \in cache.loading[name] : TRUE]
    ELSE LET i == cache.introspections[name] + 1
         IN [cache |-> [cache EXCEPT !.loading[name] = {i}, !.introspections[name] = i],
             joined |-> i]

NoTask == [pc |-> "idle", name |-> None, joined |-> 0, schema |-> 0]

\* Step 2 of execute_query in request t: schema_cache.get(database_name),
\* and schema_cache.load(database_name, pool) when it returned None; there
\* is no suspension between the two calls.
GetSchema(t, name) ==
    LET schema == get(schema_cache, name)
        l == load(schema_cache, name)
    IN /\ tasks[t].pc = "idle"
       /\ IF schema # 0
          THEN /\ tasks' = [tasks EXCEPT ![t] = [pc |-> "has_schema", name |-> name,
                                                 joined |-> 0, schema |-> schema]]
               /\ UNCHANGED schema_cache
          ELSE /\ l.cache.introspections[name] <= MaxLoads
               /\ schema_cache' = l.cache
               /\ tasks' = [tasks EXCEPT ![t] = [pc |-> "load", name |-> name,
                                                 joined |-> l.joined, schema |-> 0]]

\* Introspection i of the database ends: the schema is stored, and every
\* load that waited for it returns it.
IntrospectionEnds(name, i) ==
    /\ i \in schema_cache.loading[name]
    /\ schema_cache' = [schema_cache EXCEPT !.entries[name] = i, !.loading[name] = @ \ {i}]
    /\ tasks' = [t \in DOMAIN tasks |->
                    IF tasks[t].pc = "load" /\ tasks[t].name = name /\ tasks[t].joined = i
                    THEN [tasks[t] EXCEPT !.pc = "has_schema", !.schema = i]
                    ELSE tasks[t]]

\* The TTL of the entry passes: it is a miss from now on.
EntryExpires(name) ==
    /\ schema_cache.entries[name] # 0
    /\ schema_cache' = [schema_cache EXCEPT !.entries[name] = 0]
    /\ UNCHANGED tasks

\* Request t ends.
RequestEnds(t) ==
    /\ tasks[t].pc = "has_schema"
    /\ tasks' = [tasks EXCEPT ![t] = NoTask]
    /\ UNCHANGED schema_cache

\* No schema cache is in use.
CacheIdle ==
    /\ schema_cache = SchemaCache
    /\ tasks = <<>>

(***************************************************************************)
(* The validator harness: the SQL text's shape and parse tree are drawn    *)
(* step by step, then a validator is constructed and validate_or_raise is  *)
(* applied to the SQL.                                                     *)
(***************************************************************************)
TableItems == {Table("users", "u"), Table("USERS", ""), Table("orders", "")}
ColumnItems == {Column("password", "u"), Column("PASSWORD", "Users")}
FuncItems == {Func("PG_SLEEP")}
Items == TableItems \cup ColumnItems \cup FuncItems

CommandNames == {"EXPLAIN", "explain", "vacuum", ""}

\* Statement kinds drawn for the body of a subquery or CTE.
NestedKinds == {"Select", "Union", "Delete"}

SetOperations == {"Union", "Intersect", "Except"}

SecurityConfigs ==
    [blocked_tables : {{}},
     blocked_columns : {[t \in {} |-> {}], [t \in {"users"} |-> {"password"}]},
     allow_explain : BOOLEAN,
     require_where_clause : {{}, {"Users"}},
     max_join_tables : 1..MaxJoinCfg,
     blocked_functions : {{}}]

\* A statement of the given kind under parent p, with the operands a set
\* operation comes with (its index in the tree is at).
Statement(kind, p, at, w1, w2) ==
    IF kind \in SetOperations
    THEN <<Node(kind, p, FALSE, ""), Node("Select", at, w1, ""), Node("Select", at, w2, "")>>
    ELSE <<Node(kind, p, IF kind = "Select" THEN w1 ELSE FALSE, "")>>

InitialTrees ==
    {Statement(k, 0, 1, w1, w2) :
        k \in ALLOWED_STATEMENT_TYPES \cup (FORBIDDEN_STATEMENT_TYPES \ {"Command"})
              \cup OtherStatementTypes, w1 \in BOOLEAN, w2 \in BOOLEAN}
    \cup {<<Node("Command", 0, FALSE, c)>> : c \in CommandNames}
    \cup {<<Node("With", 0, FALSE, "")>>}
    \cup {<<Node(k, 0, FALSE, "")>> \o Statement("Select", 1, 2, w, w) :
            k \in {"With", "Subquery"}, w \in BOOLEAN}

TotalItems(tree) ==
    LET RECURSIVE Sum(_)
        Sum(n) == IF n = 0 THEN 0 ELSE Cardinality(tree[n].items) + Sum(n - 1)
    IN Sum(Len(tree))

NoOutcome == [cls |-> "none", reason |-> "", detail |-> <<>>]

InitValidator ==
    /\ vpc = "input"
    /\ vres = NoOutcome
    /\ vself = SQLValidator_init(CHOOSE c \in SecurityConfigs : TRUE, {}, {}, FALSE)
    /\ RetryIdle
    /\ OrchestratorIdle
    /\ BreakerHarnessIdle
    /\ CacheIdle
    /\ vsql \in {[shape |-> s, tree |-> <<>>] : s \in SqlShapes \ {"single", "multi"}}
                \cup {[shape |-> s, tree |-> t] :
                        s \in {"single", "multi"},
                        t \in {x \in InitialTrees : Len(x) <= MaxNodes}}

\* A subquery or CTE is added under a SELECT, with its body.
AddNested(p, w, k, w1, w2) ==
    LET tree == vsql.tree
        new == <<Node(w, p, FALSE, "")>> \o Statement(k, Len(tree) + 1, Len(tree) + 2, w1, w2)
    IN /\ vpc = "input"
       /\ vsql.shape = "single"
       /\ p \in 1..Len(tree)
       /\ tree[p].kind = "Select"
       /\ Len(tree) + Len(new) <= MaxNodes
       /\ vsql' = [vsql EXCEPT !.tree = tree \o new]
       /\ UNCHANGED <<vself, vres, vpc, rvars, ovars, bvars, cvars>>

\* A table, column or function reference is added to a SELECT.
AddItem(p, item) ==
    LET tree == vsql.tree
    IN /\ vpc = "input"
       /\ vsql.shape = "single"
       /\ p \in 1..Len(tree)
       /\ tree[p].kind = "Select"
       /\ item \notin tree[p].items
       /\ TotalItems(tree) < MaxItems
       /\ vsql' = [vsql EXCEPT !.tree[p].items = @ \cup {item}]
       /\ UNCHANGED <<vself, vres, vpc, rvars, ovars, bvars, cvars>>

\* SQLValidator(config, blocked_columns=..., allow_explain=...).validate_or_raise(sql)
Validate(config, blocked_columns, allow_explain) ==
    LET self == SQLValidator_init(config, {}, blocked_columns, allow_explain)
    IN /\ vpc = "input"
       /\ vself' = self
       /\ vres' = validate_or_raise(self, vsql)
       /\ vpc' = "validated"
       /\ UNCHANGED <<vsql, rvars, ovars, bvars, cvars>>

NextValidator ==
    \/ \E p \in 1..MaxNodes, w \in {"Subquery", "CTE"}, k \in NestedKinds,
          w1 \in BOOLEAN, w2 \in BOOLEAN : AddNested(p, w, k, w1, w2)
    \/ \E p \in 1..MaxNodes, item \in Items : AddItem(p, item)
    \/ \E config \in SecurityConfigs, blocked_columns \in {{}, {"Password"}},
          allow_explain \in BOOLEAN : Validate(config, blocked_columns, allow_explain)

SpecValidator == InitValidator /\ [][NextValidator]_vars

(***************************************************************************)
(* Properties of the validator (checked under SpecValidator).              *)
(***************************************************************************)
VTree == vsql.tree
Validated == vpc = "validated"
Accepted == Validated /\ vres.cls = "ok"
Single == vsql.shape = "single"
RootKind == VTree[1].kind
IsExplainStatement ==
    Single /\ RootKind = "Command" /\ VTree[1].this \in {"EXPLAIN", "explain"}
\* One parsed statement that reaches the security checks.
HasMainQuery ==
    Single /\ RootKind # "Command" /\ ~(RootKind = "With" /\ Len(VTree) = 1)

\* The nodes of the tree at or below node s.
Below(s) == {n \in 1..Len(VTree) : IsAncestorOrSelf(VTree, s, n)}
SelectNodes == {n \in 1..Len(VTree) : VTree[n].kind = "Select"}
\* Case-folded names of the tables of the SELECT's own FROM and JOIN clauses.
OwnTables(s) == {Lower(i.name) : i \in {x \in VTree[s].items : x.t = "Table"}}
\* Case-folded names of the tables anywhere inside the SELECT.
TablesWithin(s) == UNION {OwnTables(n) : n \in Below(s)}

\* C2: no accepted non-EXPLAIN SQL holds a statement of a forbidden type at
\* any depth (in a subquery or in the body of a CTE).
C2_NoForbiddenStatementNested ==
    (Accepted /\ Single /\ ~IsExplainStatement)
        => \A n \in 1..Len(VTree) : VTree[n].kind \notin FORBIDDEN_STATEMENT_TYPES

\* C3: the top-level statement of every accepted SQL is a SELECT or a set
\* operation, a WITH or subquery wrapping one, or an EXPLAIN with
\* allow_explain true.
C3_AcceptedTopLevelKinds ==
    Accepted =>
        /\ Single
        /\ \/ RootKind \in ALLOWED_STATEMENT_TYPES
           \/ /\ RootKind \in ALLOWED_TOP_LEVEL \ ALLOWED_STATEMENT_TYPES
              /\ Len(VTree) >= 2
              /\ VTree[2].kind \in ALLOWED_STATEMENT_TYPES
           \/ IsExplainStatement /\ vself.allow_explain

C3_Witness == Accepted /\ RootKind = "Intersect"

\* C4: an EXPLAIN is accepted iff allow_explain is true, without any other
\* check being applied, and rejected with SecurityViolationError otherwise;
\* every other command is rejected whatever allow_explain is.
C4_ExplainByFlag ==
    (Validated /\ Single /\ RootKind = "Command") =>
        IF VTree[1].this \in {"EXPLAIN", "explain"}
        THEN IF vself.allow_explain THEN vres = Returned
             ELSE vres.cls = "SecurityViolationError"
        ELSE vres.cls = "SecurityViolationError"

C4_Witness == Accepted /\ IsExplainStatement /\ vself.allow_explain

\* A column of the per-table map is referenced through a qualifier denoting
\* its table: the table's name, or an alias bound to the table in the FROM
\* of the same SELECT.
BlockedThroughQualifier ==
    \E n \in 1..Len(VTree) : \E c \in VTree[n].items :
        /\ c.t = "Column"
        /\ \E tb \in DOMAIN vself.blocked_columns_map :
              /\ Lower(c.name) \in {Lower(x) : x \in vself.blocked_columns_map[tb]}
              /\ \/ Lower(c.q) = Lower(tb)
                 \/ \E t \in VTree[n].items :
                       t.t = "Table" /\ Lower(t.name) = Lower(tb) /\ t.q # "" /\ t.q = c.q

\* C5: SQL that references a per-table blocked column through the table's
\* name or through an alias of the table is rejected with
\* SecurityViolationError.
C5_BlockedColumnThroughAlias ==
    (Validated /\ HasMainQuery /\ BlockedThroughQualifier)
        => vres.cls = "SecurityViolationError"

WhereRejected ==
    vres.cls = "SecurityViolationError" /\ vres.reason = "Table requires a WHERE clause"
JoinRejected ==
    vres.cls = "SecurityViolationError" /\ vres.reason = "Query joins too many tables"
\* The SQL passed every check that precedes the WHERE-clause requirement.
PassedEarlierChecks ==
    Validated /\ HasMainQuery /\ (vres.cls = "ok" \/ WhereRejected \/ JoinRejected)

\* C6 as stated: the SQL is rejected by the WHERE-clause requirement exactly
\* when some SELECT without WHERE names a listed table in its own FROM and
\* JOIN clauses.
C6_WhereByOwnTables ==
    PassedEarlierChecks =>
        (WhereRejected <=> \E s \in SelectNodes :
            ~VTree[s].where /\ OwnTables(s) \cap vself.require_where_clause # {})

\* C6 as amended: the SQL is rejected by the WHERE-clause requirement exactly
\* when some SELECT without WHERE has a listed table anywhere inside it, in
\* its own FROM and JOIN clauses or in a subquery or CTE nested in it.
C6_WhereByTablesWithin ==
    PassedEarlierChecks =>
        (WhereRejected <=> \E s \in SelectNodes :
            ~VTree[s].where /\ TablesWithin(s) \cap vself.require_where_clause # {})

\* A SELECT without WHERE whose only use of a listed table is inside a nested
\* SELECT that has a WHERE, rejected by the requirement.
C6_Witness ==
    /\ Validated /\ HasMainQuery /\ WhereRejected
    /\ \A s \in SelectNodes :
          OwnTables(s) \cap vself.require_where_clause # {} => VTree[s].where

TooManyTables ==
    \E s \in SelectNodes : Cardinality(TablesWithin(s)) > vself.max_join_tables

\* C7: SQL with a SELECT that references (anywhere inside it) more than
\* max_join_tables distinct case-folded table names is rejected with
\* SecurityViolationError, and the join cap rejects no other SQL.
C7_JoinCap ==
    (Validated /\ HasMainQuery) =>
        /\ TooManyTables => vres.cls = "SecurityViolationError"
        /\ JoinRejected => TooManyTables
        /\ (vres.cls = "ok" \/ JoinRejected) => (JoinRejected <=> TooManyTables)

\* Accepted with exactly max_join_tables distinct tables, one named twice.
C7_Witness ==
    /\ Accepted /\ HasMainQuery
    /\ \E s \in SelectNodes :
          /\ Cardinality(TablesWithin(s)) = vself.max_join_tables
          /\ Cardinality({i \in VTree[s].items : i.t = "Table"}) > vself.max_join_tables

\* C8: empty, blank, comment-only and unparseable input raises SQLParseError,
\* multi-statement input and every policy violation raises
\* SecurityViolationError, and nothing else is raised.
C8_ErrorClasses ==
    Validated =>
        /\ vres.cls \in {"ok", "SQLParseError", "SecurityViolationError"}
        /\ vsql.shape \in {"empty", "blank", "comment", "unparseable", "nothing"}
              => vres.cls = "SQLParseError"
        /\ vsql.shape = "multi" => vres.cls = "SecurityViolationError"
        /\ (Single /\ (HasMainQuery \/ RootKind = "Command"))
              => vres.cls \in {"ok", "SecurityViolationError"}

C8_Witness ==
    Validated /\ vsql.shape = "multi" /\ vres.cls = "SecurityViolationError"

(***************************************************************************)
(* The retry harness: one call of a function wrapped by with_retry(config) *)
(* (retry_async wraps the call the same way), whose every invocation       *)
(* returns or raises an exception of some class.                           *)
(***************************************************************************)
RetryConfigArgs ==
    [max_attempts : 0..MaxAttempts,
     initial_delay : (-1)..2,
     backoff_factor : 0..2,
     max_delay : 0..MaxDelay,
     retriable_exceptions : {{"Exception"}, {"ValueError"}, {"ValueError", "DatabaseError"}}]

RaisedClasses == {"ValueError", "TypeError", "CancelledError"}

\* The validator harness at rest.
ValidatorIdle ==
    /\ vpc = "idle"
    /\ vres = NoOutcome
    /\ vself = SQLValidator_init(CHOOSE c \in SecurityConfigs : TRUE, {}, {}, FALSE)
    /\ vsql = [shape |-> "empty", tree |-> <<>>]

InitRetry ==
    /\ ValidatorIdle
    /\ OrchestratorIdle
    /\ BreakerHarnessIdle
    /\ CacheIdle
    /\ rcfg \in RetryConfigArgs
    /\ rpc = "new"
    /\ attempt = 0
    /\ calls = 0
    /\ sleeps = <<>>
    /\ last_exception = NoException
    /\ rout = NotEnded
    /\ rhist = <<>>

\* RetryConfig(...) is constructed and, when that succeeds, the wrapped
\* function is called.
Construct ==
    /\ rpc = "new"
    /\ rpc' = IF RetryConfig_init(rcfg) = "ok" THEN "call" ELSE "ValueError"
    /\ UNCHANGED <<rcfg, attempt, calls, sleeps, last_exception, rout, rhist>>

NextRetry ==
    \/ Construct /\ UNCHANGED <<vvars, ovars, bvars, cvars>>
    \/ FuncReturns /\ UNCHANGED <<vvars, ovars, bvars, cvars>>
    \/ \E cls \in RaisedClasses : FuncRaises(cls) /\ UNCHANGED <<vvars, ovars, bvars, cvars>>
    \/ SleepEnds /\ UNCHANGED <<vvars, ovars, bvars, cvars>>

SpecRetry == InitRetry /\ [][NextRetry]_vars

(***************************************************************************)
(* Properties of with_retry (checked under SpecRetry).                     *)
(***************************************************************************)
\* The exception is of a class the configuration retries.
Retriable(e) == \E base \in rcfg.retriable_exceptions : issubclass(e.cls, base)

\* C9: when every invocation raises a retriable error, the operation is
\* invoked exactly max_attempts times and the wrapper raises
\* RetryExhaustedError with attempts = max_attempts, last_error the error of
\* the final invocation, chained as its cause.
C9_PersistentErrorExhausts ==
    (/\ rpc = "done"
     /\ \A i \in 1..Len(rhist) : rhist[i] # NoException /\ Retriable(rhist[i]))
        => /\ calls = rcfg.max_attempts
           /\ Len(rhist) = rcfg.max_attempts
           /\ rout.kind = "raised"
           /\ rout.cls = "RetryExhaustedError"
           /\ rout.attempts = rcfg.max_attempts
           /\ rout.last_error = rhist[Len(rhist)]
           /\ rout.cause = rhist[Len(rhist)]

C9_Witness ==
    /\ rpc = "done"
    /\ rout.cls = "RetryExhaustedError"
    /\ calls = rcfg.max_attempts
    /\ calls > 1

\* C10: an invocation that raises a non-retriable error is the last one: the
\* wrapper ends at once raising that same error, not a RetryExhaustedError,
\* and no sleep follows it.
C10_NonRetriablePropagates ==
    \A i \in 1..Len(rhist) :
        (rhist[i] # NoException /\ ~Retriable(rhist[i]))
            => /\ i = Len(rhist)
               /\ calls = i
               /\ rpc = "done"
               /\ rout.kind = "raised"
               /\ rout.err = rhist[i]
               /\ rout.cls = rhist[i].cls
               /\ Len(sleeps) = i - 1

C10_Witness ==
    /\ rpc = "done"
    /\ calls = 2
    /\ calls < rcfg.max_attempts
    /\ rout.cls = "TypeError"

(***************************************************************************)
(* The orchestrator harness: one QueryOrchestrator serving requests one    *)
(* after another; the generator, the executor, the schema cache and the    *)
(* result validator answer as they please.                                 *)
(***************************************************************************)
Orchestrators ==
    [sql_validator : {SQLValidator_init(c, {}, {}, FALSE) :
                        c \in {x \in SecurityConfigs :
                                 /\ x.max_join_tables = 1
                                 /\ x.require_where_clause = {}
                                 /\ DOMAIN x.blocked_columns = {}}},
     pools : {{}, {"db"}, {"db", "analytics"}},
     max_retries : {1, MaxRetries},
     failure_threshold : {1, MaxThreshold},
     rate_limiter : BOOLEAN,
     validation_enabled : BOOLEAN,
     min_confidence_score : {70},
     max_question_length : {5000},
     max_rows : {MaxRows}]

\* The confidences the result validator returns: around min_confidence_score.
Confidences == {0, 69, 70, 100}

QueryRequests ==
    [question : {5000, 5001}, database : {None, "db", "missing"},
     return_type : {"sql", "result"}]

Init ==
    /\ ValidatorIdle
    /\ RetryIdle
    /\ BreakerHarnessIdle
    /\ CacheIdle
    /\ orch \in Orchestrators
    /\ circuit_breaker = CircuitBreaker(orch.failure_threshold)
    /\ opc = "idle"
    /\ request = NoRequest
    /\ gen = NoGen
    /\ generated_sql = None
    /\ db_attempt = 0
    /\ response = NoResponse
    /\ validated = {}
    /\ executed = {}
    /\ database_name = "unknown"
    /\ trace = <<>>
    /\ llm_streak = 0
    /\ last_generated = None
    /\ results = NoResults
    /\ measured = NotMeasured
    /\ produced = 0
    /\ metrics = NoMetrics
    /\ probing = FALSE
    /\ caught = NotRaised

Next ==
    \/ \E req \in QueryRequests, cached \in BOOLEAN :
            ExecuteQuery(req, cached) /\ UNCHANGED <<vvars, rvars, bvars, cvars>>
    \/ SchemaLoadReturns /\ UNCHANGED <<vvars, rvars, bvars, cvars>>
    \/ \E cls \in {"ValueError", "CancelledError"} :
            SchemaLoadRaises(cls) /\ UNCHANGED <<vvars, rvars, bvars, cvars>>
    \/ \E text \in GeneratedTexts : GenerateReturns(text) /\ UNCHANGED <<vvars, rvars, bvars, cvars>>
    \/ \E cls \in {"LLMError", "ValueError", "CancelledError"} :
            GenerateRaises(cls) /\ UNCHANGED <<vvars, rvars, bvars, cvars>>
    \/ AcquireReturns /\ UNCHANGED <<vvars, rvars, bvars, cvars>>
    \/ \E cls \in {"ValueError", "CancelledError"} :
            AcquireRaises(cls) /\ UNCHANGED <<vvars, rvars, bvars, cvars>>
    \/ \E rows \in 0..(MaxRows + 1), counted \in BOOLEAN :
            ExecuteReturns(rows, counted) /\ UNCHANGED <<vvars, rvars, bvars, cvars>>
    \/ \E cls \in {"DatabaseError", "ValueError", "CancelledError"} :
            ExecuteRaises(cls) /\ UNCHANGED <<vvars, rvars, bvars, cvars>>
    \/ BackoffEnds /\ UNCHANGED <<vvars, rvars, bvars, cvars>>
    \/ \E cls \in {"CancelledError"} : BackoffRaises(cls) /\ UNCHANGED <<vvars, rvars, bvars, cvars>>
    \/ \E confidence \in Confidences :
            ValidateResultsReturns(confidence) /\ UNCHANGED <<vvars, rvars, bvars, cvars>>
    \/ \E cls \in {"ValueError", "CancelledError"} :
            ValidateResultsRaises(cls) /\ UNCHANGED <<vvars, rvars, bvars, cvars>>
    \/ RecoveryTimeoutPasses /\ UNCHANGED <<vvars, rvars, bvars, cvars>>

Spec == Init /\ [][Next]_vars

(***************************************************************************)
(* Properties of the orchestrator (checked under Spec).                    *)
(***************************************************************************)
\* The validator of the orchestrator accepts the text.
ValidatorAccepts(text) == validate_or_raise(orch.sql_validator, ParsedText(text)) = Returned

\* C1: executor.execute is invoked only with SQL for which validate_or_raise
\* returned earlier in the same request, the generated_sql of a successful
\* response is such SQL, and SQL the validator rejects is neither executed
\* nor returned as a success.
C1_OnlyValidatedSqlRuns ==
    /\ executed \subseteq validated
    /\ response.success => response.generated_sql \in validated
    /\ \A text \in executed : ValidatorAccepts(text)
    /\ response.success => ValidatorAccepts(response.generated_sql)

C1_Witness ==
    /\ opc = "execute"
    /\ gen.previous_sql = DeleteUsers
    /\ executed = {SelectUsers}

(***************************************************************************)
(* More properties of with_retry and RetryConfig (checked under SpecRetry).*)
(***************************************************************************)
\* C11: the operation is never invoked more than max_attempts times, and an
\* invocation that returns is the last one: the wrapper returns its result,
\* after exactly k invocations and k-1 sleeps when it is the k-th.
C11_AttemptsBoundedSuccessEnds ==
    /\ calls <= rcfg.max_attempts
    /\ \A k \in 1..Len(rhist) :
          rhist[k] = NoException
             => /\ k = Len(rhist)
                /\ calls = k
                /\ rpc = "done"
                /\ rout = ReturnedResult
                /\ Len(sleeps) = k - 1

C11_Witness ==
    /\ rout = ReturnedResult
    /\ calls = rcfg.max_attempts
    /\ calls >= 3

\* C12: the sleep after the failed invocation with index i is
\* min(initial_delay * backoff_factor^i, max_delay); the delays of a valid
\* configuration never decrease with i and never exceed max_delay; no sleep
\* follows the final failed invocation.
C12_BackoffDelays ==
    /\ \A j \in 1..Len(sleeps) :
          LET raw == rcfg.initial_delay * rcfg.backoff_factor ^ (j - 1)
          IN sleeps[j] = IF raw <= rcfg.max_delay THEN raw ELSE rcfg.max_delay
    /\ rpc \notin {"new", "ValueError"}
          => \A i \in 0..MaxAttempts :
                /\ calculate_delay(rcfg, i) <= calculate_delay(rcfg, i + 1)
                /\ calculate_delay(rcfg, i) <= rcfg.max_delay
    /\ calls > 0 => Len(sleeps) <= rcfg.max_attempts - 1
    /\ rout.cls = "RetryExhaustedError" => Len(sleeps) = calls - 1

C12_Witness ==
    /\ rout.cls = "RetryExhaustedError"
    /\ Len(sleeps) = 2
    /\ sleeps[1] < sleeps[2]
    /\ sleeps[2] = rcfg.max_delay
    /\ rcfg.initial_delay * rcfg.backoff_factor > rcfg.max_delay

\* The parameters are the ones the configuration section of the spec allows.
ValidRetryParameters ==
    /\ rcfg.max_attempts >= 1
    /\ rcfg.initial_delay >= 0
    /\ rcfg.backoff_factor >= 1
    /\ rcfg.max_delay >= rcfg.initial_delay

\* C13: RetryConfig(...) raises ValueError exactly for max_attempts < 1,
\* initial_delay < 0, backoff_factor < 1 or max_delay < initial_delay; a
\* configuration in use satisfies the four constraints.
C13_ConfigValidation ==
    /\ rpc # "new" => (rpc = "ValueError" <=> ~ValidRetryParameters)
    /\ calls > 0 => ValidRetryParameters

C13_Witness ==
    /\ rpc = "ValueError"
    /\ rcfg.max_attempts >= 1
    /\ rcfg.initial_delay >= 0
    /\ rcfg.backoff_factor >= 1
    /\ rcfg.max_delay < rcfg.initial_delay

(***************************************************************************)
(* The breaker harness: callers sharing one CircuitBreaker; each asks      *)
(* allow_request and, when admitted, later records the outcome of its      *)
(* call.  Every operation on the breaker is atomic.                        *)
(***************************************************************************)
Operation(op, c, admit) ==
    [op |-> op, caller |-> c, admit |-> admit, before |-> circuit_breaker]

\* The orchestrator variables other than the breaker, at rest.
NoOrchestrator ==
    /\ orch = [pools |-> {}]
    /\ opc = "off"
    /\ request = NoRequest
    /\ gen = NoGen
    /\ generated_sql = None
    /\ db_attempt = 0
    /\ response = NoResponse
    /\ validated = {}
    /\ executed = {}
    /\ database_name = "unknown"
    /\ trace = <<>>
    /\ llm_streak = 0
    /\ last_generated = None
    /\ results = NoResults
    /\ measured = NotMeasured
    /\ produced = 0
    /\ metrics = NoMetrics
    /\ probing = FALSE
    /\ caught = NotRaised

InitBreaker ==
    /\ ValidatorIdle
    /\ RetryIdle
    /\ NoOrchestrator
    /\ CacheIdle
    /\ \E n \in 1..MaxThreshold : circuit_breaker = CircuitBreaker(n)
    /\ callers = [c \in 1..MaxCallers |-> "idle"]
    /\ bstreak = 0
    /\ bprobes = 0
    /\ blast = NoOperation

\* Caller c calls allow_request().
CallAllowRequest(c) ==
    LET a == allow_request(circuit_breaker)
    IN /\ callers[c] = "idle"
       /\ circuit_breaker' = a.cb
       /\ callers' = [callers EXCEPT ![c] = IF a.admit THEN "in_call" ELSE "idle"]
       /\ bprobes' = IF a.admit /\ circuit_breaker.state # "CLOSED"
                     THEN bprobes + 1 ELSE bprobes
       /\ blast' = Operation("allow_request", c, a.admit)
       /\ UNCHANGED bstreak

\* Caller c, admitted earlier, calls record_success().
CallRecordSuccess(c) ==
    /\ callers[c] = "in_call"
    /\ circuit_breaker' = record_success(circuit_breaker)
    /\ callers' = [callers EXCEPT ![c] = "idle"]
    /\ bstreak' = 0
    /\ blast' = Operation("record_success", c, FALSE)
    /\ UNCHANGED bprobes

\* Caller c, admitted earlier, calls record_failure().
CallRecordFailure(c) ==
    LET cb == record_failure(circuit_breaker)
    IN /\ callers[c] = "in_call"
       /\ circuit_breaker' = cb
       /\ callers' = [callers EXCEPT ![c] = "idle"]
       /\ bstreak' = IF bstreak < circuit_breaker.failure_threshold THEN bstreak + 1 ELSE bstreak
       /\ bprobes' = IF cb.state = "OPEN" /\ circuit_breaker.state # "OPEN" THEN 0 ELSE bprobes
       /\ blast' = Operation("record_failure", c, FALSE)

NextBreaker ==
    \/ \E c \in 1..MaxCallers : CallAllowRequest(c)
            /\ UNCHANGED <<cvars, vvars, rvars, orch, opc, request, gen, generated_sql,
                           db_attempt, response, validated, executed, database_name,
                           trace, llm_streak, last_generated, results, measured,
                           produced, metrics, probing, caught>>
    \/ \E c \in 1..MaxCallers : CallRecordSuccess(c)
            /\ UNCHANGED <<cvars, vvars, rvars, orch, opc, request, gen, generated_sql,
                           db_attempt, response, validated, executed, database_name,
                           trace, llm_streak, last_generated, results, measured,
                           produced, metrics, probing, caught>>
    \/ \E c \in 1..MaxCallers : CallRecordFailure(c)
            /\ UNCHANGED <<cvars, vvars, rvars, orch, opc, request, gen, generated_sql,
                           db_attempt, response, validated, executed, database_name,
                           trace, llm_streak, last_generated, results, measured,
                           produced, metrics, probing, caught>>
    \/ RecoveryTimeoutPasses
            /\ blast' = Operation("timeout", 0, FALSE)
            /\ UNCHANGED <<vvars, rvars, cvars, callers, bstreak, bprobes>>

SpecBreaker == InitBreaker /\ [][NextBreaker]_vars

(***************************************************************************)
(* Properties of the circuit breaker (checked under SpecBreaker).          *)
(***************************************************************************)
\* C14: from CLOSED with counter 0 the breaker opens exactly at the
\* failure_threshold-th consecutive record_failure, not before; a
\* record_success while CLOSED resets the counter, so failures separated by a
\* success do not add up.
C14_OpensAtThreshold ==
    /\ circuit_breaker.state = "CLOSED"
          => /\ circuit_breaker.failure_count = bstreak
             /\ bstreak < circuit_breaker.failure_threshold
    /\ (blast.op = "record_failure" /\ blast.before.state = "CLOSED")
          => (circuit_breaker.state = "OPEN" <=> bstreak = circuit_breaker.failure_threshold)
    /\ (blast.op = "record_success" /\ blast.before.state = "CLOSED")
          => /\ circuit_breaker.state = "CLOSED"
             /\ circuit_breaker.failure_count = 0

C14_Witness ==
    /\ blast.op = "record_failure"
    /\ blast.before.state = "CLOSED"
    /\ circuit_breaker.state = "OPEN"
    /\ circuit_breaker.failure_threshold >= 2
    /\ bstreak = circuit_breaker.failure_threshold

\* C15: an OPEN breaker denies every allow_request until recovery_timeout
\* has passed since it opened; then, whatever the interleaving of callers,
\* exactly one is admitted as the probe; a success of the probe closes the
\* breaker with the counter at 0, a failure re-opens it with a new open time.
C15_OneProbeAfterTimeout ==
    /\ (blast.op = "allow_request" /\ blast.before.state = "OPEN" /\ ~blast.before.elapsed)
          => ~blast.admit /\ circuit_breaker = blast.before
    /\ (blast.op = "allow_request" /\ blast.before.state = "OPEN" /\ blast.before.elapsed)
          => blast.admit /\ circuit_breaker.state = "HALF_OPEN"
    /\ bprobes <= 1
    /\ (blast.op = "record_success" /\ blast.before.state = "HALF_OPEN")
          => circuit_breaker.state = "CLOSED" /\ circuit_breaker.failure_count = 0
    /\ (blast.op = "record_failure" /\ blast.before.state = "HALF_OPEN")
          => circuit_breaker.state = "OPEN" /\ ~circuit_breaker.elapsed

C15_Witness ==
    /\ blast.op = "allow_request"
    /\ blast.before.state = "HALF_OPEN"
    /\ ~blast.admit
    /\ bprobes = 1
    /\ \E c \in 1..MaxCallers : callers[c] = "in_call"

(***************************************************************************)
(* More properties of the orchestrator (checked under Spec).               *)
(***************************************************************************)
ProtectedCalls == {"generate", "execute"}
Admissions == {"allow_request:true", "allow_request:false"}
Records == {"record_success", "record_failure"}

\* The index of the first protected call after i in the trace, or one past
\* its end.
NextProtected(i) ==
    IF \E k \in (i + 1)..Len(trace) : trace[k] \in ProtectedCalls
    THEN CHOOSE k \in (i + 1)..Len(trace) :
            /\ trace[k] \in ProtectedCalls
            /\ \A m \in (i + 1)..(k - 1) : trace[m] \notin ProtectedCalls
    ELSE Len(trace) + 1

\* C16: every call of sql_generator.generate and of executor.execute has its
\* own allow_request() that returned true before it, and exactly one
\* record_success or record_failure after it, before the next protected call
\* starts or the request returns.
C16_ProtectedCallsBracketed ==
    \A i \in 1..Len(trace) :
        trace[i] \in ProtectedCalls
            => /\ \E j \in 1..(i - 1) :
                     /\ trace[j] = "allow_request:true"
                     /\ \A k \in (j + 1)..(i - 1) : trace[k] \notin ProtectedCalls \cup Admissions
               /\ (NextProtected(i) <= Len(trace) \/ opc = "responded")
                     => Cardinality({k \in (i + 1)..(NextProtected(i) - 1) :
                                        trace[k] \in Records}) = 1

\* C17: after failure_threshold requests in a row whose generator call
\* raised LLMError the breaker is OPEN; a request refused by the breaker
\* returns LLM_ERROR with a circuit-breaker-open message and never calls the
\* generator.
C17_LlmErrorsOpenBreaker ==
    /\ (opc = "responded" /\ llm_streak = circuit_breaker.failure_threshold)
          => circuit_breaker.state = "OPEN"
    /\ (opc = "responded" /\ Len(trace) > 0 /\ trace[Len(trace)] = "allow_request:false"
            /\ "generate" \notin {trace[k] : k \in 1..Len(trace)})
          => /\ ~response.success
             /\ response.error = "LLM_ERROR"
             /\ response.message =
                  "SQL generation service is temporarily unavailable (circuit breaker open)"

\* C18: once allow_request() has returned false in a request, nothing more
\* happens in it: no sleep, acquire, admission check, generator or executor
\* call, and the request fails.
C18_CircuitOpenEndsRequest ==
    \A i \in 1..Len(trace) :
        trace[i] = "allow_request:false"
            => /\ i = Len(trace)
               /\ opc = "responded"
               /\ ~response.success

\* C19: a question longer than max_question_length gets QUESTION_TOO_LONG
\* with details.question_length = len(question) and no collaborator is
\* called for it; a question of exactly max_question_length passes the gate.
C19_LengthGate ==
    /\ (opc # "idle" /\ request.question > orch.max_question_length)
          => /\ opc = "responded"
             /\ ~response.success
             /\ response.generated_sql = None
             /\ response.error = "QUESTION_TOO_LONG"
             /\ response.details.question_length = request.question
             /\ trace = <<>>
             /\ validated = {}
             /\ executed = {}
    /\ (opc # "idle" /\ request.question <= orch.max_question_length)
          => /\ response.error # "QUESTION_TOO_LONG"
             /\ Len(trace) > 0
             /\ trace[1] = "_resolve_database"

C19_Witness ==
    /\ opc = "responded"
    /\ request.question = orch.max_question_length + 1
    /\ response.error = "QUESTION_TOO_LONG"
    /\ circuit_breaker.state = "OPEN"

\* The request passed the length gate.
Resolving == opc # "idle" /\ request.question <= orch.max_question_length

NoLaterCall ==
    \A k \in 1..Len(trace) : trace[k] = "_resolve_database"

\* C20: a registered named database resolves to itself, an unnamed request
\* with one registered database to that one; an unregistered name and an
\* unnamed request with several databases give DATABASE_NOT_FOUND with
\* details.available_databases the registered names; with no database the
\* request fails; no schema, generator or executor call on any failure.
C20_DatabaseResolution ==
    /\ (Resolving /\ request.database # None /\ request.database \in orch.pools)
          => database_name = request.database
    /\ (Resolving /\ request.database = None /\ Cardinality(orch.pools) = 1)
          => database_name \in orch.pools
    /\ (Resolving /\ (\/ request.database # None /\ request.database \notin orch.pools
                      \/ request.database = None /\ Cardinality(orch.pools) > 1))
          => /\ opc = "responded"
             /\ ~response.success
             /\ response.error = "DATABASE_NOT_FOUND"
             /\ response.details.available_databases = orch.pools
             /\ NoLaterCall
    /\ (Resolving /\ orch.pools = {})
          => /\ opc = "responded"
             /\ ~response.success
             /\ NoLaterCall

(***************************************************************************)
(* The generate-and-validate loop (checked under Spec).                    *)
(***************************************************************************)
\* How often the event is in the trace of the request.
Count(event) == Cardinality({i \in 1..Len(trace) : trace[i] = event})

\* The rejection of the SQL the generator returned last.
LastRejection == validate_or_raise(orch.sql_validator, ParsedText(last_generated))

\* The request is over, every generator call of it returned SQL and the
\* validator accepted none.
EveryGeneratedRejected ==
    /\ opc = "responded"
    /\ Count("generate") > 0
    /\ \A i \in 1..Len(trace) :
          trace[i] = "generate" => i < Len(trace) /\ trace[i + 1] = "validate_or_raise"
    /\ validated = {}

\* C21: the generator is invoked at most max_retries + 1 times in a request
\* and never after validate_or_raise returned; when every generated SQL was
\* rejected it was invoked exactly max_retries + 1 times, the response is a
\* failure with the code and message of the last rejection, and the
\* executor was not called.
C21_GeneratorCallsBounded ==
    /\ opc \notin {"idle"} => Count("generate") <= orch.max_retries + 1
    /\ \A i \in 2..Len(trace) :
          (trace[i] = "record_success" /\ trace[i - 1] = "validate_or_raise")
              => \A k \in (i + 1)..Len(trace) : trace[k] # "generate"
    /\ EveryGeneratedRejected
          => /\ Count("generate") = orch.max_retries + 1
             /\ ~response.success
             /\ response.error \in {"SECURITY_VIOLATION", "SQL_PARSE_ERROR"}
             /\ response.error = ErrorCode(LastRejection.cls)
             /\ response.message = LastRejection.reason
             /\ Count("execute") = 0
             /\ executed = {}

C21_Witness ==
    /\ EveryGeneratedRejected
    /\ orch.max_retries = MaxRetries
    /\ last_generated = Unparseable
    /\ response.error = "SQL_PARSE_ERROR"
    /\ circuit_breaker.failure_count = 1

\* validate_or_raise calls of the request that raised.
Rejections == Count("validate_or_raise") - Cardinality(validated)

\* C22: the first generator call of a request gets previous_attempt = None
\* and error_feedback = None, every later one the SQL of the attempt before
\* it and the message of its rejection; a rejection followed by an accepted
\* SQL ends the loop after exactly two generator calls, and a SQL-only
\* request then succeeds.
C22_FeedbackOfPrecedingAttempt ==
    /\ (opc = "generate" /\ Count("generate") = 1)
          => gen.previous_sql = None /\ gen.error_feedback = None
    /\ (opc = "generate" /\ Count("generate") > 1)
          => /\ gen.previous_sql = last_generated
             /\ gen.error_feedback = LastRejection.reason
             /\ LastRejection.cls \in {"SecurityViolationError", "SQLParseError"}
    /\ (validated # {} /\ Rejections = 1)
          => /\ Count("generate") = 2
             /\ request.return_type = "sql" => opc = "responded" /\ response.success

C22_Witness ==
    /\ opc = "generate"
    /\ Count("generate") = 3
    /\ gen.previous_sql = Unparseable
    /\ gen.error_feedback = "Failed to parse SQL"

(***************************************************************************)
(* The responses of execute_query (checked under Spec).                    *)
(***************************************************************************)
\* C23: in a request with return_type SQL the rate limiter, the executor and
\* the result validator are not invoked, and once the generated SQL has
\* passed validation the response is a success with that SQL, data = None,
\* error = None and confidence = 100.
C23_SqlOnlySuccess ==
    (opc # "idle" /\ request.return_type = "sql")
        => /\ Count("acquire") = 0
           /\ Count("execute") = 0
           /\ Count("result_validator.validate") = 0
           /\ executed = {}
           /\ validated # {}
                 => /\ opc = "responded"
                    /\ response.success
                    /\ response.generated_sql = last_generated
                    /\ response.generated_sql \in validated
                    /\ response.data = NoData
                    /\ response.error = None
                    /\ response.confidence = 100

C23_Witness ==
    /\ opc = "responded"
    /\ request.return_type = "sql"
    /\ response.success
    /\ response.generated_sql = SelectUsers
    /\ orch.rate_limiter
    /\ orch.validation_enabled
    /\ Rejections = 1

\* C24: with a rate limiter configured, every executor.execute call comes
\* right after an allow_request() that returned true, which comes right
\* after the rate_limiter.acquire("database") of the same attempt; when the
\* call has returned or raised an Exception, the breaker record for it
\* follows.
C24_AcquireAdmitExecuteRecord ==
    (opc # "idle" /\ orch.rate_limiter)
        => \A i \in 1..Len(trace) :
              trace[i] = "execute"
                  => /\ i >= 3
                     /\ trace[i - 1] = "allow_request:true"
                     /\ trace[i - 2] = "acquire"
                     /\ i = Len(trace) => opc = "execute"
                     /\ i < Len(trace)
                           => \/ trace[i + 1] = "CancelledError"
                              \/ /\ trace[i + 1] \in {"execute:returned", "execute:raised"}
                                 /\ trace[i + 2] \in Records

C24_Witness ==
    /\ opc = "responded"
    /\ orch.rate_limiter
    /\ response.success
    /\ Count("acquire") = 2
    /\ Count("execute") = 2
    /\ Count("record_failure") = 1

\* The execution phase of the request ended with the last attempt the retry
\* policy allows failing.
RetryExhausted ==
    /\ opc = "responded"
    /\ request.return_type = "result"
    /\ validated # {}
    /\ Count("sleep") = orch.max_retries - 1
    /\ trace[Len(trace)] \in {"record_failure", "allow_request:false"}

\* An executor.execute call of the request raised and a later one returned.
FailedThenSucceeded ==
    \E i, j \in 1..Len(trace) :
        i < j /\ trace[i] = "execute:raised" /\ trace[j] = "execute:returned"

ExecutedAndResponded == opc = "responded" /\ Count("execute:returned") > 0

\* C26: with validation disabled the result validator is not invoked and
\* the confidence is 100; when result_validator.validate raises an Exception
\* the confidence is 100 and the response is a success; when it returns, the
\* confidence of the response is the one it returned.
C26_ResultValidationNeverFails ==
    /\ (opc # "idle" /\ ~orch.validation_enabled)
          => /\ Count("result_validator.validate") = 0
             /\ measured = NotMeasured
             /\ ExecutedAndResponded => response.success /\ response.confidence = 100
    /\ measured.how = "raised"
          => /\ orch.validation_enabled
             /\ ExecutedAndResponded
             /\ response.success
             /\ response.data # NoData
             /\ response.confidence = 100
    /\ measured.how = "returned"
          => /\ orch.validation_enabled
             /\ ExecutedAndResponded
             /\ response.confidence = measured.confidence

C26_Witness ==
    /\ measured.how = "raised"
    /\ opc = "responded"
    /\ response.success
    /\ response.confidence = 100
    /\ response.data.row_count = 1

\* The confidence measured for the results of the request.
MeasuredConfidence == IF measured.how = "returned" THEN measured.confidence ELSE 100

\* C27: after the executor returned results, the response is a failure with
\* LOW_CONFIDENCE exactly when the confidence is below min_confidence_score;
\* it then carries the generated SQL, the confidence and data = None; at
\* the threshold and above the response is a success with data.
C27_LowConfidence ==
    ExecutedAndResponded
        => /\ response.error = "LOW_CONFIDENCE"
                 <=> MeasuredConfidence < orch.min_confidence_score
           /\ response.error = "LOW_CONFIDENCE"
                 => /\ ~response.success
                    /\ response.generated_sql = last_generated
                    /\ response.generated_sql \in validated
                    /\ response.confidence = MeasuredConfidence
                    /\ response.details.confidence = MeasuredConfidence
                    /\ response.data = NoData
           /\ MeasuredConfidence >= orch.min_confidence_score
                 => /\ response.success
                    /\ response.error = None
                    /\ response.data # NoData
                    /\ response.generated_sql = last_generated

C27_Witness ==
    /\ ExecutedAndResponded
    /\ response.error = "LOW_CONFIDENCE"
    /\ response.confidence = orch.min_confidence_score - 1
    /\ response.generated_sql = SelectUsers

\* C28: a response to a RESULT request has exactly one of data and error,
\* a response is a success exactly when it has no error, and a response to
\* a SQL request has no data.
C28_DataXorError ==
    opc = "responded"
        => /\ request.return_type = "result"
                 => (response.data # NoData) # (response.error # None)
           /\ response.success <=> response.error = None
           /\ request.return_type = "sql" => response.data = NoData

C28_Witness ==
    /\ opc = "responded"
    /\ request.return_type = "result"
    /\ response.error = "LOW_CONFIDENCE"
    /\ response.data = NoData
    /\ measured.confidence = 0

\* C29: the QueryResult of a response has row_count = len(rows) <= max_rows,
\* with exactly max_rows rows for a query producing more and all the rows
\* of one producing fewer; an empty result has row_count = 0 and no columns,
\* any other the keys of its first row as columns.
C29_RowCountWithinCap ==
    (opc = "responded" /\ response.data # NoData)
        => /\ response.data.row_count = Len(response.data.rows)
           /\ response.data.row_count <= orch.max_rows
           /\ produced > orch.max_rows => response.data.row_count = orch.max_rows
           /\ produced <= orch.max_rows => response.data.row_count = produced
           /\ response.data.rows = <<>>
                 => response.data.row_count = 0 /\ response.data.columns = <<>>
           /\ response.data.rows # <<>>
                 => /\ response.data.columns = keys(response.data.rows[1])
                    /\ response.data.columns = <<"id", "name">>

C29_Witness ==
    /\ opc = "responded"
    /\ response.success
    /\ produced = orch.max_rows + 1
    /\ response.data.row_count = orch.max_rows
    /\ Len(response.data.rows) = orch.max_rows

(***************************************************************************)
(* Cancellation (checked under Spec).                                      *)
(***************************************************************************)
\* Where execute_query is suspended in an awaited call.
Suspensions == {"schema_load", "generate", "acquire", "execute", "sleep", "validate_results"}

\* The step is the cancellation of the request at its suspension: the
\* awaited call raises asyncio.CancelledError.
CancelledHere ==
    /\ opc \in Suspensions
    /\ Len(trace') > Len(trace)
    /\ trace'[Len(trace) + 1] = "CancelledError"

\* C30: when a request is cancelled while suspended in a generator call, an
\* executor call, a rate-limiter acquire or a backoff sleep (or any other
\* awaited call), the step records no failure (and no success) on the
\* circuit breaker and leaves its state and failure counter as they were.
C30_CancellationNotRecorded ==
    [][CancelledHere
          => /\ circuit_breaker' = circuit_breaker
             /\ \A k \in (Len(trace) + 1)..Len(trace') : trace'[k] \notin Records]_vars

\* An executor call admitted as the probe of a half-open breaker was
\* cancelled.
C30_Witness ==
    /\ opc = "raised"
    /\ Len(trace) > 1
    /\ trace[Len(trace)] = "CancelledError"
    /\ trace[Len(trace) - 1] = "execute"
    /\ circuit_breaker.state = "HALF_OPEN"

(***************************************************************************)
(* Metrics of a request: what execute_query has reported when it is left.  *)
(***************************************************************************)
Cancelled == opc = "raised" /\ Len(trace) > 0 /\ trace[Len(trace)] = "CancelledError"

\* C31: a request cancelled while suspended in a collaborator has, when it
\* leaves execute_query, observed query_duration once and incremented
\* query_requests_total once, with status "error".
C31_CancellationReported ==
    Cancelled => /\ metrics.query_duration = 1
                 /\ Len(metrics.query_requests_total) = 1
                 /\ metrics.query_requests_total[1][1] = "error"

(***************************************************************************)
(* Retries of the generator call.                                          *)
(***************************************************************************)
\* The request ended with the LLMError sql_generator.generate raised.
EndedByGeneratorLlmError ==
    /\ opc = "responded"
    /\ response.error = "LLM_ERROR"
    /\ response.message = "generation failed"

\* C32: a transient LLMError of the generator is retried within the request:
\* a request does not end with the LLMError of its first generator call, a
\* second call is made (which returns the SQL when the generator succeeds).
C32_TransientLlmErrorRetried == EndedByGeneratorLlmError => Count("generate") >= 2

(***************************************************************************)
(* The schema cache under concurrent requests.                             *)
(***************************************************************************)
InitCache ==
    /\ ValidatorIdle
    /\ RetryIdle
    /\ OrchestratorIdle
    /\ BreakerHarnessIdle
    /\ schema_cache = SchemaCache
    /\ tasks = [t \in 1..MaxTasks |-> NoTask]

NextCache ==
    \/ \E t \in 1..MaxTasks, name \in Databases :
            GetSchema(t, name) /\ UNCHANGED <<vvars, rvars, ovars, bvars>>
    \/ \E name \in Databases, i \in 1..MaxLoads :
            IntrospectionEnds(name, i) /\ UNCHANGED <<vvars, rvars, ovars, bvars>>
    \/ \E name \in Databases : EntryExpires(name) /\ UNCHANGED <<vvars, rvars, ovars, bvars>>
    \/ \E t \in 1..MaxTasks : RequestEnds(t) /\ UNCHANGED <<vvars, rvars, ovars, bvars>>

SpecCache == InitCache /\ [][NextCache]_vars

Loading(name) == {t \in 1..MaxTasks : tasks[t].pc = "load" /\ tasks[t].name = name}

\* C33: requests that miss the cache for the same name and call load while
\* a load of that name is in flight share one introspection (at most one is
\* in flight per name) and all receive the schema it built; a load waits
\* for an introspection of its own name only, so loads of different names
\* run side by side.
C33_LoadsCoalescePerName ==
    /\ \A name \in Databases :
          /\ Cardinality(schema_cache.loading[name]) <= 1
          /\ \A t \in Loading(name) : schema_cache.loading[name] = {tasks[t].joined}
    /\ \A t \in 1..MaxTasks :
          (tasks[t].pc = "has_schema" /\ tasks[t].joined # 0)
             => tasks[t].schema = tasks[t].joined

\* Two requests got the schema of the one introspection of "db" they both
\* waited for, while a third waits for the introspection of "analytics".
C33_Witness ==
    /\ tasks[1].pc = "has_schema" /\ tasks[2].pc = "has_schema"
    /\ tasks[1].name = "db" /\ tasks[2].name = "db"
    /\ tasks[1].joined = 1 /\ tasks[2].joined = 1
    /\ tasks[1].schema = tasks[2].schema
    /\ schema_cache.introspections["db"] = 1
    /\ tasks[3].pc = "load" /\ tasks[3].name = "analytics"
    /\ schema_cache.loading["analytics"] = {1}

(***************************************************************************)
(* The except clauses of execute_query.                                    *)
(***************************************************************************)
\* C34: execute_query is never left by an exception of class Exception; a
\* PgMcpError ending its try block gives a success=false response with the
\* code, message and details of that error, any other Exception one with
\* INTERNAL_ERROR and details.error_type naming the class.
C34_ExceptionsBecomeResponses ==
    /\ opc = "raised" => ~issubclass(caught.cls, "Exception")
    /\ (caught.cls # "none" /\ issubclass(caught.cls, "PgMcpError"))
          => /\ opc = "responded"
             /\ ~response.success
             /\ response.error = ErrorCode(caught.cls)
             /\ response.message = caught.message
             /\ response.details = caught.details
    /\ (caught.cls # "none" /\ issubclass(caught.cls, "Exception")
            /\ ~issubclass(caught.cls, "PgMcpError"))
          => /\ opc = "responded"
             /\ ~response.success
             /\ response.error = "INTERNAL_ERROR"
             /\ response.details.error_type = caught.cls

\* rate_limiter.acquire raised a ValueError and the response names it.
C34_Witness ==
    /\ opc = "responded"
    /\ caught.cls = "ValueError"
    /\ response.error = "INTERNAL_ERROR"
    /\ response.details.error_type = "ValueError"
    /\ Count("acquire") > 0

(***************************************************************************)
(* The breaker in the generate-and-validate loop.                          *)
(***************************************************************************)
\* What the step added to the trace of the request.
Added == SubSeq(trace', Len(trace) + 1, Len(trace'))

\* sql_generator.generate returned in this step and its text was validated.
GeneratedAndValidated ==
    /\ opc = "generate"
    /\ Len(trace') > Len(trace)
    /\ trace'[Len(trace) + 1] = "validate_or_raise"

OnlyQueries ==
    /\ TotalItems(VTree) = 0
    /\ \A n \in 1..Len(VTree) :
          VTree[n].kind \in ALLOWED_STATEMENT_TYPES \cup {"Subquery"}

\* The nodes whose parent is node p.
ChildrenOf(p) == {n \in 1..Len(VTree) : VTree[n].parent = p}

\* C36: a single statement that is a parenthesised subquery around a SELECT,
\* UNION, INTERSECT or EXCEPT and violates no other policy is accepted by
\* validate_or_raise, and so is a statement with a nested subquery whose
\* body is a set operation of SELECTs.
C36_SubqueriesAccepted ==
    /\ (Validated /\ Single /\ OnlyQueries /\ RootKind = "Subquery"
            /\ \E b \in ChildrenOf(1) : VTree[b].kind \in ALLOWED_STATEMENT_TYPES)
          => Accepted
    /\ (Validated /\ Single /\ OnlyQueries /\ RootKind = "Select"
            /\ \E s \in 2..Len(VTree) :
                  /\ VTree[s].kind = "Subquery"
                  /\ \E b \in ChildrenOf(s) :
                        /\ VTree[b].kind \in SetOperations
                        /\ \A c \in ChildrenOf(b) : VTree[c].kind = "Select")
          => Accepted

(***************************************************************************)
(* The half-open probe.                                                    *)
(***************************************************************************)
\* C37: a request whose allow_request() call moved the breaker from OPEN to
\* HALF_OPEN leaves the breaker CLOSED or OPEN when it returns its response,
\* whatever the outcome of the probe.
C37_ProbeLeavesHalfOpen ==
    (opc = "responded" /\ probing) => circuit_breaker.state \in {"CLOSED", "OPEN"}

(***************************************************************************)
(* Sequential requests with a generator whose SQL the validator always     *)
(* accepts and an executor that always fails, on orchestrators with        *)
(* max_retries < circuit_breaker_threshold.                                *)
(***************************************************************************)
FewRetriesOrchestrators ==
    {[o EXCEPT !.max_retries = r, !.failure_threshold = t] :
        o \in Orchestrators, r \in 1..MaxRetries, t \in 2..(MaxRetries + 1)}

InitFailingExecutor ==
    /\ ValidatorIdle
    /\ RetryIdle
    /\ BreakerHarnessIdle
    /\ CacheIdle
    /\ orch \in {o \in FewRetriesOrchestrators : o.max_retries < o.failure_threshold}
    /\ circuit_breaker = CircuitBreaker(orch.failure_threshold)
    /\ opc = "idle"
    /\ request = NoRequest
    /\ gen = NoGen
    /\ generated_sql = None
    /\ db_attempt = 0
    /\ response = NoResponse
    /\ validated = {}
    /\ executed = {}
    /\ database_name = "unknown"
    /\ trace = <<>>
    /\ llm_streak = 0
    /\ last_generated = None
    /\ results = NoResults
    /\ measured = NotMeasured
    /\ produced = 0
    /\ metrics = NoMetrics
    /\ probing = FALSE
    /\ caught = NotRaised

NextFailingExecutor ==
    \/ \E req \in QueryRequests, cached \in BOOLEAN :
            ExecuteQuery(req, cached) /\ UNCHANGED <<vvars, rvars, bvars, cvars>>
    \/ SchemaLoadReturns /\ UNCHANGED <<vvars, rvars, bvars, cvars>>
    \/ \E text \in GeneratedTexts :
            /\ ValidatorAccepts(text)
            /\ GenerateReturns(text)
            /\ UNCHANGED <<vvars, rvars, bvars, cvars>>
    \/ AcquireReturns /\ UNCHANGED <<vvars, rvars, bvars, cvars>>
    \/ \E cls \in {"DatabaseError", "ValueError"} :
            ExecuteRaises(cls) /\ UNCHANGED <<vvars, rvars, bvars, cvars>>
    \/ BackoffEnds /\ UNCHANGED <<vvars, rvars, bvars, cvars>>

SpecFailingExecutor == InitFailingExecutor /\ [][NextFailingExecutor]_vars

\* C38: in this setting the breaker never leaves CLOSED: the successful
\* generation of a request resets the failure counter, and at most
\* max_retries executions of the request fail after it; the executor is
\* invoked at most max_retries times and the generator at most
\* max_retries + 1 times in a request.
C38_BreakerStaysClosed ==
    /\ circuit_breaker.state = "CLOSED"
    /\ circuit_breaker.failure_count <= orch.max_retries
    /\ Count("record_success") > 0
          => circuit_breaker.failure_count = Count("record_failure")
    /\ Count("execute") <= orch.max_retries
    /\ Count("generate") <= orch.max_retries + 1

\* A request failed after max_retries executions, one short of the
\* threshold, and the breaker is still CLOSED.
C38_Witness ==
    /\ opc = "responded"
    /\ response.error = "DATABASE_ERROR"
    /\ orch.max_retries = MaxRetries
    /\ orch.failure_threshold = MaxRetries + 1
    /\ Count("execute") = MaxRetries
    /\ Count("record_failure") = MaxRetries
    /\ circuit_breaker.failure_count = MaxRetries
    /\ circuit_breaker.state = "CLOSED"

(***************************************************************************)
(* Metrics and fields of the responses.                                    *)
(***************************************************************************)
\* The status label the claim gives to a response.
StatusOf(resp) ==
    CASE resp.success -> "success"
      [] resp.error = "LOW_CONFIDENCE" -> "low_confidence"
      [] resp.error = "SECURITY_VIOLATION" -> "security_violation"
      [] resp.error \in {"QUESTION_TOO_LONG", "SQL_PARSE_ERROR"} -> "validation_failed"
      [] OTHER -> "error"

\* The database label the claim gives to the request: the resolved name, or
\* "unknown" when the request failed before or in the resolution.
DatabaseLabel ==
    LET resolved == _resolve_database(orch.pools, request.database)
    IN IF request.question > orch.max_question_length \/ resolved.raised
       THEN "unknown" ELSE resolved.name

\* C39: a call of execute_query that returned a response observed
\* query_duration once and incremented query_requests_total once, under the
\* status of its response (success, low_confidence, security_violation,
\* validation_failed or error) and under the resolved database name, or
\* "unknown" when it failed before the resolution.
C39_MetricsOfResponse ==
    opc = "responded"
       => /\ metrics.query_duration = 1
          /\ metrics.query_requests_total = <<<<StatusOf(response), DatabaseLabel>>>>
          /\ (metrics.query_requests_total[1][1] = "success") <=> response.success

\* A request that ended with the SQLParseError of its last attempt was
\* counted under validation_failed and its database.
C39_Witness ==
    /\ opc = "responded"
    /\ response.error = "SQL_PARSE_ERROR"
    /\ Count("record_failure") = 1
    /\ metrics.query_duration = 1
    /\ metrics.query_requests_total = <<<<"validation_failed", "db">>>>

\* C40: a success=false response other than LOW_CONFIDENCE has generated_sql,
\* validation, data and tokens_used null and confidence 0, even when SQL was
\* generated and validated in the request; successes and LOW_CONFIDENCE
\* failures carry the generated SQL and its validation.
C40_FailuresCarryNoSql ==
    opc = "responded"
       => /\ (~response.success /\ response.error # "LOW_CONFIDENCE")
                => /\ response.generated_sql = None
                   /\ response.validation = NoValidation
                   /\ response.data = NoData
                   /\ response.confidence = 0
                   /\ response.tokens_used = None
          /\ (response.success \/ response.error = "LOW_CONFIDENCE")
                => /\ response.generated_sql # None
                   /\ response.generated_sql \in validated
                   /\ response.validation = ValidationResult

\* A request whose validated SQL was executed and failed: the
\* DATABASE_ERROR response does not carry the SQL.
C40_Witness ==
    /\ opc = "responded"
    /\ response.error = "DATABASE_ERROR"
    /\ validated # {}
    /\ executed # {}
    /\ Count("execute:raised") > 0
    /\ response.generated_sql = None
    /\ response.validation = NoValidation

====
